---- MODULE Spec2Model ----
(***************************************************************************)
(* Model of the seller export pipeline of src/src/core.py: the HTTP helper *)
(* _get_json, the passport resolver fetch_passport, the catalog aggregator *)
(* fetch_goods_sample and the worker pool of export_data, run by one       *)
(* cooperative (asyncio) scheduler.                                        *)
(*                                                                         *)
(* Python values are tagged records [t, v]: t is the dynamic type, v the   *)
(* payload.  Floats are fixed point: a "num" holds the value times 100.    *)
(***************************************************************************)
EXTENDS Integers, Sequences, FiniteSets, TLC

VARIABLES
    seller_ids,   \* export_data argument: the ordered id list
    concurrency,  \* export_data argument: number of worker tasks
    cb_supplied,  \* whether progress_cb is not None
    q,            \* asyncio.Queue contents (FIFO of seller ids)
    unfinished,   \* q._unfinished_tasks (put_nowait ++, task_done --)
    rows,         \* the shared result list
    lock,         \* asyncio.Lock owner (Nobody when free)
    running,      \* the task the event loop is running (Nobody between tasks)
    mpc,          \* position of export_data itself
    result,       \* value returned by export_data
    wk,           \* per worker task: position and locals
    env,          \* the upstream: the exchanges a passport / catalog GET may have
    cb_log,       \* history: the (completed, total) pairs passed to progress_cb
    done_log,     \* history: one entry per q.task_done()
    operation,    \* the export called: "export_data" or "export_html_report"
    csv_path,     \* export_html_report local: the CSV written next to the page
    xlsx_path,    \* export_html_report local: the XLSX written next to the page
    sink_faults   \* history: the sinks that raised

vars == <<seller_ids, concurrency, cb_supplied, q, unfinished, rows, lock,
          running, mpc, result, wk, env, cb_log, done_log,
          operation, csv_path, xlsx_path, sink_faults>>

-----------------------------------------------------------------------------
(* Bounds of the model *)

\* longest id list explored
MaxIds == 2
\* largest concurrency explored
MaxWorkers == 2

-----------------------------------------------------------------------------
(* Python values *)

None == [t |-> "null", v |-> 0]
PInt(n) == [t |-> "int", v |-> n]
PNum(h) == [t |-> "num", v |-> h]
PStr(s) == [t |-> "str", v |-> s]
PList(s) == [t |-> "list", v |-> s]
PDict(d) == [t |-> "dict", v |-> d]

IsNone(x) == x.t = "null"
IsDict(x) == x.t = "dict"
IsList(x) == x.t = "list"

\* Python truthiness: None, 0, "", [] and {} are falsy
Truthy(x) ==
    CASE x.t = "null" -> FALSE
      [] x.t = "int"  -> x.v # 0
      [] x.t = "num"  -> x.v # 0
      [] x.t = "str"  -> x.v # ""
      [] x.t = "list" -> Len(x.v) > 0
      [] x.t = "dict" -> DOMAIN x.v # {}

\* a or b
POr(a, b) == IF Truthy(a) THEN a ELSE b

\* dict.get(k) on a value known to be a dict
DGet(x, k) == IF k \in DOMAIN x.v THEN x.v[k] ELSE None

\* x.get(k) raises AttributeError unless x is a dict
GetRaises(x) == ~IsDict(x)

-----------------------------------------------------------------------------
(* _get_json: one HTTP exchange.  A raw exchange is                        *)
(*   [net |-> "ok" | "error" | "timeout", status, body]                    *)
(* with body [kind |-> "empty" | "invalid" | "json", value].               *)

RawFail(net) == [net |-> net, status |-> 0, body |-> [kind |-> "empty", value |-> None]]
RawStatus(s) == [net |-> "ok", status |-> s, body |-> [kind |-> "empty", value |-> None]]
RawEmpty == [net |-> "ok", status |-> 200, body |-> [kind |-> "empty", value |-> None]]
RawInvalid == [net |-> "ok", status |-> 200, body |-> [kind |-> "invalid", value |-> None]]
RawJson(x) == [net |-> "ok", status |-> 200, body |-> [kind |-> "json", value |-> x]]

\* no exchange completed
NoExchange == [net |-> "none", status |-> 0, body |-> [kind |-> "empty", value |-> None]]

\* a bug: the status of a refused request handed to the caller
GetJsonStatus(raw) ==
    IF raw.net # "ok" THEN None
    ELSE IF raw.status # 200 THEN PInt(raw.status)
    ELSE IF raw.body.kind = "empty" THEN None
    ELSE IF raw.body.kind = "invalid" THEN None
    ELSE raw.body.value

_get_json(raw) ==
    IF raw.net # "ok" THEN None
    ELSE IF raw.status # 200 THEN None
    ELSE IF raw.body.kind = "empty" THEN None
    ELSE IF raw.body.kind = "invalid" THEN None
    ELSE raw.body.value

-----------------------------------------------------------------------------
(* fetch_passport *)

\* a bug: the duplicates kept
FromKeysAll(s) == s

\* list(dict.fromkeys(s)): duplicates removed, first occurrences kept
RECURSIVE FromKeys(_)
FromKeys(s) ==
    IF s = <<>> THEN <<>>
    ELSE LET front == FromKeys(SubSeq(s, 1, Len(s) - 1))
             last == s[Len(s)]
         IN IF \E i \in 1..Len(front) : front[i] = last
            THEN front ELSE Append(front, last)

\* a bug: the first basket counted in hundreds
possible_vols_by_hundred(sid) == <<0, sid \div 100, sid \div 10000>>

possible_vols(sid) == <<0, sid \div 1000, sid \div 10000>>

\* a bug: the duplicates kept
PassportVolsAll(sid) == possible_vols(sid)

PassportVols(sid) == FromKeys(possible_vols(sid))

\* a bug: data.get("supplierName") without the `data and`, raising on None
NameCheckRaisesOnNone(data) == GetRaises(data)

\* line 132 / 139: data and data.get("supplierName")
NameCheckRaises(data) == Truthy(data) /\ GetRaises(data)
HasName(data) == Truthy(data) /\ IsDict(data) /\ Truthy(DGet(data, "supplierName"))

\* lines 143-161: the passport record built from an accepted response
PassportResult(data) ==
    LET legal == DGet(data, "legalAddress")
        address_block == IF IsDict(legal) THEN legal ELSE PDict(<<>>)
        address_value == POr(IF IsDict(legal) THEN DGet(address_block, "address") ELSE legal,
                             DGet(data, "address"))
    IN PDict([supplierName |-> DGet(data, "supplierName"),
              supplierFullName |-> DGet(data, "supplierFullName"),
              trademark |-> DGet(data, "trademark"),
              inn |-> DGet(data, "inn"),
              kpp |-> DGet(data, "kpp"),
              ogrn |-> POr(POr(DGet(data, "ogrn"), DGet(data, "ogrnip")), DGet(data, "ogrnIp")),
              address |-> address_value,
              region |-> DGet(address_block, "region"),
              city |-> DGet(address_block, "city"),
              zip |-> POr(DGet(address_block, "zip"), DGet(address_block, "postCode")),
              country |-> DGet(address_block, "country")])

-----------------------------------------------------------------------------
(* Arithmetic of fetch_goods_sample.  A number is an "int" (exact) or a    *)
(* "num" (a float, held as the value times 100).  The upstream products of *)
(* this model carry numbers in their numeric fields.                       *)

\* value times 100
Hundredths(x) == IF x.t = "int" THEN x.v * 100 ELSE x.v

\* round(n / d) on the rationals, ties to the even neighbour (Python round)
RoundDiv(n, d) ==
    LET fl == n \div d
        r2 == 2 * (n - fl * d)
    IN IF r2 < d THEN fl
       ELSE IF r2 > d THEN fl + 1
       ELSE IF fl % 2 = 0 THEN fl ELSE fl + 1

\* raw / 100 if raw else None            (lines 211-214)
ToRub(raw) == IF Truthy(raw) THEN PNum(Hundredths(raw) \div 100) ELSE None

\* a bug: a negative discount clamped to 0
DiscountClamped(basic, product) ==
    IF ~IsNone(basic) /\ ~IsNone(product) /\ basic.v > 0 /\ product.v <= basic.v
    THEN PNum(10 * RoundDiv((basic.v - product.v) * 1000, basic.v))
    ELSE PInt(0)

\* round((basic - product) / basic * 100, 1) when computable, else 0   (lines 232-234)
Discount(basic, product) ==
    IF ~IsNone(basic) /\ ~IsNone(product) /\ basic.v > 0
    THEN PNum(10 * RoundDiv((basic.v - product.v) * 1000, basic.v))
    ELSE PInt(0)

RECURSIVE SumH(_)
SumH(s) == IF s = <<>> THEN 0 ELSE Hundredths(s[1]) + SumH(Tail(s))

\* min(s) / max(s) of a non-empty list: the first extremal element
RECURSIVE PMin(_)
PMin(s) ==
    IF Len(s) = 1 THEN s[1]
    ELSE LET m == PMin(Tail(s))
         IN IF Hundredths(m) < Hundredths(s[1]) THEN m ELSE s[1]

RECURSIVE PMax(_)
PMax(s) ==
    IF Len(s) = 1 THEN s[1]
    ELSE LET m == PMax(Tail(s))
         IN IF Hundredths(m) > Hundredths(s[1]) THEN m ELSE s[1]

\* a bug: 0 instead of None for an empty list
MinOrZero(s) == IF s = <<>> THEN PInt(0) ELSE PMin(s)

\* a bug: the last value instead of the largest
MaxOrLast(s) == IF s = <<>> THEN None ELSE s[Len(s)]

MinOrNone(s) == IF s = <<>> THEN None ELSE PMin(s)
MaxOrNone(s) == IF s = <<>> THEN None ELSE PMax(s)

\* a bug: the sum not divided by the number of values
AvgIsSum(s) == IF s = <<>> THEN None ELSE PNum(SumH(s))

\* round(sum(s) / len(s), 2) if s else None
AvgOrNone(s) == IF s = <<>> THEN None ELSE PNum(RoundDiv(SumH(s), Len(s)))

\* round(sum(s) / len(s), 1) if s else None
Avg1OrNone(s) == IF s = <<>> THEN None ELSE PNum(10 * RoundDiv(SumH(s) , 10 * Len(s)))

\* sum(feedbacks) if feedbacks else None: the sum keeps the type of its terms
SumOrNone(s) ==
    IF s = <<>> THEN None
    ELSE IF \A i \in 1..Len(s) : s[i].t = "int" THEN PInt(SumH(s) \div 100)
    ELSE PNum(SumH(s))

-----------------------------------------------------------------------------
(* fetch_goods_sample: the page scan *)

\* default page count of fetch_goods_sample
Pages == 3

\* the locals of fetch_goods_sample before the first page (lines 173-179).
\* cats and brands are insertion-ordered dicts: sequences of [k, n].
EmptyAcc ==
    [cats |-> <<>>, brands |-> <<>>, prices |-> <<>>, ratings |-> <<>>,
     feedbacks |-> <<>>, disc_list |-> <<>>, promo_types_set |-> {},
     discount_items |-> <<>>, goods_seen |-> 0, basic_prices |-> <<>>,
     product_prices |-> <<>>, total_prices |-> <<>>, logistics_prices |-> <<>>]

\* a bug: a product without a label left uncounted
BumpNamed(d, k) ==
    IF k = "" THEN d
    ELSE IF \E i \in 1..Len(d) : d[i].k = k
    THEN [i \in 1..Len(d) |-> IF d[i].k = k THEN [k |-> k, n |-> d[i].n + 1] ELSE d[i]]
    ELSE Append(d, [k |-> k, n |-> 1])

\* d[k] = d.get(k, 0) + 1 on an insertion-ordered dict
Bump(d, k) ==
    IF \E i \in 1..Len(d) : d[i].k = k
    THEN [i \in 1..Len(d) |-> IF d[i].k = k THEN [k |-> k, n |-> d[i].n + 1] ELSE d[i]]
    ELSE Append(d, [k |-> k, n |-> 1])

AppendIf(s, x) == IF IsNone(x) THEN s ELSE Append(s, x)

\* lines 196-203: the nested price object, else the one of the first size
PriceBlock(g) ==
    LET own == IF IsDict(DGet(g, "price")) THEN DGet(g, "price") ELSE PDict(<<>>)
        sizes_list == DGet(g, "sizes")
        first == IF IsList(sizes_list) /\ Truthy(sizes_list)
                 THEN (IF IsDict(sizes_list.v[1]) THEN DGet(sizes_list.v[1], "price") ELSE None)
                 ELSE None
    IN IF Truthy(own) THEN own
       ELSE IF IsDict(first) THEN first ELSE own

\* lines 190-255: one product g (a dict) added to the locals
ScanProduct(acc, g) ==
    LET cat_name == POr(POr(DGet(g, "subjectName"), DGet(g, "entity")), PStr(""))
        brand_name == POr(DGet(g, "brand"), PStr(""))
        price_block == PriceBlock(g)
        basic == ToRub(POr(DGet(price_block, "basic"), DGet(g, "priceU")))
        product == ToRub(POr(DGet(price_block, "product"), DGet(g, "salePriceU")))
        total == ToRub(DGet(price_block, "total"))
        logistics == ToRub(DGet(price_block, "logistics"))
        promo_price == IF ~IsNone(product) THEN product ELSE basic
        disc == Discount(basic, product)
        promo == DGet(g, "promoTextCard")
    IN [acc EXCEPT
          !.goods_seen = @ + 1,
          !.cats = Bump(@, cat_name.v),
          !.brands = Bump(@, brand_name.v),
          !.prices = AppendIf(@, promo_price),
          !.basic_prices = AppendIf(@, basic),
          !.product_prices = AppendIf(@, product),
          !.total_prices = AppendIf(@, total),
          !.logistics_prices = AppendIf(@, logistics),
          !.disc_list = Append(@, disc),
          !.promo_types_set = IF Truthy(promo) THEN @ \cup {promo.v} ELSE @,
          !.discount_items = Append(@, <<DGet(g, "id"), disc, promo, basic, product,
                                         total, logistics, DGet(g, "rating")>>),
          !.ratings = IF Truthy(DGet(g, "rating")) THEN Append(@, DGet(g, "rating")) ELSE @,
          !.feedbacks = IF Truthy(DGet(g, "feedbacks")) THEN Append(@, DGet(g, "feedbacks")) ELSE @]

\* line 186: (js or {}).get("data", {}).get("products", [])
PageData(js) ==
    LET j == POr(js, PDict(<<>>))
    IN IF "data" \in DOMAIN j.v THEN j.v["data"] ELSE PDict(<<>>)

PageProducts(js) ==
    LET d == PageData(js)
    IN IF "products" \in DOMAIN d.v THEN d.v["products"] ELSE PList(<<>>)

\* a bug: js.get("data") without the `or {}`, raising on a failed exchange
PageRaisesOnNone(js) ==
    \/ IsNone(js)
    \/ Truthy(js) /\ GetRaises(js)
    \/ ~(Truthy(js) /\ GetRaises(js)) /\ GetRaises(PageData(js))
    \/ /\ ~(Truthy(js) /\ GetRaises(js)) /\ ~GetRaises(PageData(js))
       /\ Truthy(PageProducts(js))
       /\ \/ ~IsList(PageProducts(js))
          \/ \E i \in 1..Len(PageProducts(js).v) : ~IsDict(PageProducts(js).v[i])

\* does handling this page raise (AttributeError / TypeError)?
PageRaises(js) ==
    \/ Truthy(js) /\ GetRaises(js)
    \/ ~(Truthy(js) /\ GetRaises(js)) /\ GetRaises(PageData(js))
    \/ /\ ~(Truthy(js) /\ GetRaises(js)) /\ ~GetRaises(PageData(js))
       /\ Truthy(PageProducts(js))
       /\ \/ ~IsList(PageProducts(js))
          \/ \E i \in 1..Len(PageProducts(js).v) : ~IsDict(PageProducts(js).v[i])

\* a bug: the scan goes on after an empty page
PageNeverStops(js) == FALSE

\* line 187: if not products: break
PageStops(js) == ~Truthy(PageProducts(js))

RECURSIVE ScanProducts(_, _)
ScanProducts(acc, gs) ==
    IF gs = <<>> THEN acc ELSE ScanProducts(ScanProduct(acc, gs[1]), Tail(gs))

\* lines 189-255 for a whole page
ScanPage(acc, js) == ScanProducts(acc, PageProducts(js).v)

-----------------------------------------------------------------------------
(* fetch_goods_sample: aggregates (lines 256-293) *)

\* sorted(s, key=lambda e: -e.key) on a list of [key, x]: stable, descending
RECURSIVE InsertDesc(_, _)
InsertDesc(sorted, e) ==
    IF sorted = <<>> THEN <<e>>
    ELSE IF sorted[1].key >= e.key
         THEN <<sorted[1]>> \o InsertDesc(Tail(sorted), e)
         ELSE <<e>> \o sorted

RECURSIVE SortDesc(_)
SortDesc(s) ==
    IF s = <<>> THEN <<>>
    ELSE InsertDesc(SortDesc(SubSeq(s, 1, Len(s) - 1)), s[Len(s)])

Unkey(s) == [i \in 1..Len(s) |-> s[i].x]

\* s[:n]
Take(s, n) == SubSeq(s, 1, IF Len(s) < n THEN Len(s) ELSE n)

\* [x] * n for n that may be negative
Repeat(x, n) == [i \in 1..n |-> x]

\* a bug: the least frequent labels first
ByCountAscending(d) == [i \in 1..Len(d) |-> [key |-> 0 - d[i].n, x |-> d[i]]]

\* a bug: the smallest discounts first
ByDiscAscending(items) ==
    [i \in 1..Len(items) |-> [key |-> 0 - Hundredths(items[i][2]), x |-> items[i]]]

\* the sort keys: x[1] of a (label, count) item and of a discount tuple
ByCount(d) == [i \in 1..Len(d) |-> [key |-> d[i].n, x |-> d[i]]]
ByDisc(items) == [i \in 1..Len(items) |-> [key |-> Hundredths(items[i][2]), x |-> items[i]]]

\* top_n(d): the three entries with the highest counts   (lines 257-258)
top_n(d) == Take(Unkey(SortDesc(ByCount(d))), 3)

\* (None,) * 8
NoneItem == <<None, None, None, None, None, None, None, None>>

\* lines 262-263
DiscItemsPadded(discount_items) ==
    LET disc_items_sorted == Take(Unkey(SortDesc(ByDisc(discount_items))), 3)
    IN disc_items_sorted \o Repeat(NoneItem, 3 - Len(disc_items_sorted))

\* a bug: the padding forgotten
TopLabelsUnpadded(top) == [i \in 1..Len(top) |-> PStr(top[i].k)]

\* [c[0] for c in top] + [None] * (3 - len(top))   (lines 267-268)
TopLabels(top) == [i \in 1..Len(top) |-> PStr(top[i].k)] \o Repeat(None, 3 - Len(top))

\* the orders in which a Python set may be iterated
Orders(S) == {o \in [1..Cardinality(S) -> S] : \A x \in S : \E i \in DOMAIN o : o[i] = x}

\* "|".join(order): the labels in the iteration order of the set
Joined(order) == [t |-> "joined", v |-> order]

\* the dict returned by fetch_goods_sample (lines 265-293); order is the
\* iteration order of promo_types_set, which the language leaves open
Finalize(acc, order) ==
    PDict([subjectsCount |-> PInt(Len(acc.cats)),
           topSubjects |-> PList(TopLabels(top_n(acc.cats))),
           topBrands |-> PList(TopLabels(top_n(acc.brands))),
           priceMin |-> MinOrNone(acc.prices),
           priceAvg |-> AvgOrNone(acc.prices),
           priceMax |-> MaxOrNone(acc.prices),
           basicMin |-> MinOrNone(acc.basic_prices),
           basicAvg |-> AvgOrNone(acc.basic_prices),
           basicMax |-> MaxOrNone(acc.basic_prices),
           productMin |-> MinOrNone(acc.product_prices),
           productAvg |-> AvgOrNone(acc.product_prices),
           productMax |-> MaxOrNone(acc.product_prices),
           totalMin |-> MinOrNone(acc.total_prices),
           totalAvg |-> AvgOrNone(acc.total_prices),
           totalMax |-> MaxOrNone(acc.total_prices),
           logisticsAvg |-> AvgOrNone(acc.logistics_prices),
           ratingAvgProd |-> AvgOrNone(acc.ratings),
           feedbacksSum |-> SumOrNone(acc.feedbacks),
           discountAvg |-> Avg1OrNone(acc.disc_list),
           discountMax |-> MaxOrNone(acc.disc_list),
           promoCount |-> PInt(Cardinality(acc.promo_types_set)),
           promoTypes |-> IF acc.promo_types_set # {} THEN Joined(order) ELSE None,
           topDiscountItems |-> PList(DiscItemsPadded(acc.discount_items))])

-----------------------------------------------------------------------------
(* The row builder of export_data.worker (lines 323-388) *)

\* number of entries of COLUMNS
NCOLUMNS == 62

\* COLUMNS (lines 19-82), the headers put into English
COLUMNS ==
    <<"ID", "Seller", "Full name", "Trademark", "Link", "INN", "KPP", "OGRN", "Address",
      "Categories",
      "Top category 1", "Top category 2", "Top category 3",
      "Top brand 1", "Top brand 2", "Top brand 3",
      "Price min", "Price avg", "Price max",
      "Price basic min", "Price basic avg", "Price basic max",
      "Price product min", "Price product avg", "Price product max",
      "Price total min", "Price total avg", "Price total max",
      "Price logistics avg", "Avg product rating", "Sum of product feedbacks",
      "Avg discount %", "Max discount %", "Promo count", "Promo types",
      "DiscItem1", "ItemLink1", "Disc%1", "Promo1", "Price basic 1", "Price product 1",
      "Price total 1", "Price logistics 1", "Rating1",
      "DiscItem2", "ItemLink2", "Disc%2", "Promo2", "Price basic 2", "Price product 2",
      "Price total 2", "Price logistics 2", "Rating2",
      "DiscItem3", "ItemLink3", "Disc%3", "Promo3", "Price basic 3", "Price product 3",
      "Price total 3", "Price logistics 3", "Rating3">>

\* pad(lst): (list(lst) + [None] * 3)[:3]
pad(lst) == Take(lst \o Repeat(None, 3), 3)

\* sample.get(k, []) for the list-valued keys
DGetList(x, k) == IF k \in DOMAIN x.v THEN x.v[k].v ELSE <<>>

\* an f-string: the template and the value formatted into it
FStr(template, x) == [t |-> "fstr", v |-> <<template, x>>]

\* a bug: the link of the item left out
FlatItemNoLink(item) == <<item[1], item[2], item[3], item[4], item[5], item[6], item[7], item[8]>>

\* lines 340-352 for one discount item
FlatItem(item) ==
    LET gid == item[1]
        link == IF Truthy(gid) THEN FStr("https://www.wildberries.ru/catalog/{gid}/detail.aspx", gid)
                ELSE None
    IN <<gid, link, item[2], item[3], item[4], item[5], item[6], item[7], item[8]>>

BuildRow(sid, passport_raw, sample_raw) ==
    LET passport == POr(passport_raw, PDict(<<>>))
        sample == POr(sample_raw, PDict(<<>>))
        top_subjects == pad(DGetList(sample, "topSubjects"))
        top_brands == pad(DGetList(sample, "topBrands"))
        items0 == DGetList(sample, "topDiscountItems")
        disc_items == Take(items0 \o Repeat(NoneItem, 3 - Len(items0)), 3)
        flat_disc == IF disc_items = <<>> THEN <<>>
                     ELSE FlatItem(disc_items[1])
                          \o (IF Len(disc_items) > 1 THEN FlatItem(disc_items[2]) ELSE <<>>)
                          \o (IF Len(disc_items) > 2 THEN FlatItem(disc_items[3]) ELSE <<>>)
    IN <<PInt(sid),
         DGet(passport, "supplierName"),
         DGet(passport, "supplierFullName"),
         DGet(passport, "trademark"),
         FStr("https://www.wildberries.ru/seller/{sid}", PInt(sid)),
         DGet(passport, "inn"),
         DGet(passport, "kpp"),
         DGet(passport, "ogrn"),
         DGet(passport, "address"),
         DGet(sample, "subjectsCount")>>
       \o top_subjects
       \o top_brands
       \o <<DGet(sample, "priceMin"), DGet(sample, "priceAvg"), DGet(sample, "priceMax"),
            DGet(sample, "basicMin"), DGet(sample, "basicAvg"), DGet(sample, "basicMax"),
            DGet(sample, "productMin"), DGet(sample, "productAvg"), DGet(sample, "productMax"),
            DGet(sample, "totalMin"), DGet(sample, "totalAvg"), DGet(sample, "totalMax"),
            DGet(sample, "logisticsAvg"),
            DGet(sample, "ratingAvgProd"),
            DGet(sample, "feedbacksSum"),
            DGet(sample, "discountAvg"),
            DGet(sample, "discountMax"),
            DGet(sample, "promoCount"),
            DGet(sample, "promoTypes")>>
       \o flat_disc

-----------------------------------------------------------------------------
(* The upstream *)

\* all sequences over S of length at most n
SeqsUpTo(S, n) == UNION {[1..k -> S] : k \in 0..n}

\* a supplier-by-id document, one without a seller name, and a JSON array
PassportFull ==
    PDict([supplierName |-> PStr("Shop"), supplierFullName |-> PStr("Shop LLC"),
           inn |-> PStr("7700000000"), ogrnip |-> PStr("300000000000000"),
           legalAddress |-> PStr("Moscow")])
PassportNoName == PDict([supplierName |-> PStr(""), inn |-> PStr("7700000000")])
JsonArray == PList(<<PInt(1)>>)

\* a catalog document with the given products
CatalogDoc(products) == PDict([data |-> PDict([products |-> PList(products)])])

\* four products: a full price block; the price block of the first size only,
\* an alternate category field and no brand; a zero basic price; the legacy
\* price fields with a sale price above the basic one and no category
ProdA ==
    PDict([id |-> PInt(101), subjectName |-> PStr("shoes"), brand |-> PStr("acme"),
           price |-> PDict([basic |-> PInt(10000), product |-> PInt(8000),
                            total |-> PInt(8500), logistics |-> PInt(500)]),
           rating |-> PNum(450), feedbacks |-> PInt(12), promoTextCard |-> PStr("sale")])
ProdB ==
    PDict([id |-> PInt(102), entity |-> PStr("bags"),
           sizes |-> PList(<<PDict([price |-> PDict([basic |-> PInt(5000),
                                                     product |-> PInt(5000)])])>>),
           rating |-> PInt(0), promoTextCard |-> PStr("new")])
ProdC ==
    PDict([id |-> PInt(103), subjectName |-> PStr("hats"), brand |-> PStr("zeta"),
           price |-> PDict([basic |-> PInt(0), product |-> PInt(3000)]),
           rating |-> PInt(5), feedbacks |-> PInt(3)])
ProdD ==
    PDict([id |-> PInt(104), subjectName |-> PStr(""), brand |-> PStr("omega"),
           priceU |-> PInt(2000), salePriceU |-> PInt(2500), feedbacks |-> PInt(0)])

\* the exchanges _get_json maps to None
RawFailures == {RawFail("error"), RawFail("timeout"), RawStatus(404), RawEmpty, RawInvalid}

\* the seller ids of the pool runs (one, two candidate volumes) and of the
\* single-seller runs (one, two, three candidate volumes)
PoolIds == {7, 5500}
SellerIds == {7, 5500, 893739}

\* most products on one catalog page of seller 7 in the single-seller runs
MaxPageLen == 2

Products == <<ProdA, ProdB, ProdC, ProdD>>

\* the pages of at most n products, in catalog order
PagesUpTo(n) ==
    {[i \in 1..Len(ix) |-> Products[ix[i]]] :
        ix \in {s \in SeqsUpTo(1..Len(Products), n) :
                  \A i \in 1..Len(s) - 1 : s[i] < s[i + 1]}}

PassportAnswers ==
    RawFailures \cup {RawJson(PassportFull), RawJson(PassportNoName), RawJson(JsonArray)}

\* a seller with one page of one product
SmallCatalog ==
    [page \in 1..Pages |->
        RawFailures \cup {RawJson(CatalogDoc(<<>>)), RawJson(JsonArray)}
        \cup (IF page = 1 THEN {RawJson(CatalogDoc(<<ProdA>>))} ELSE {})]

\* a seller with any page of Products on every page
LargeCatalog ==
    [page \in 1..Pages |->
        {RawStatus(404), RawJson(JsonArray)}
        \cup {RawJson(CatalogDoc(pg)) : pg \in PagesUpTo(MaxPageLen)}]

\* the raw prices of the probes: absent, zero, and amounts whose discounts are
\* exact (20, -20), rounded down (33.33 -> 33.3) and rounded up (66.67 -> 66.7)
PriceInputs == {None, PInt(0), PInt(10000), PInt(8000), PInt(12000), PInt(300),
                PInt(200), PInt(100)}

\* a product with nothing but an id and a price block of the given basic and
\* sale ("product") prices, a None price being an absent field
PriceProbe(b, s) ==
    PDict([id |-> PInt(200),
           price |-> PDict([k \in {x \in {"basic", "product"} :
                                     IF x = "basic" THEN ~IsNone(b) ELSE ~IsNone(s)}
                            |-> IF k = "basic" THEN b ELSE s])])

\* a seller whose first page may also hold any one probe, or a probe without
\* a sale price next to a product that has one
ProbeCatalog ==
    [page \in 1..Pages |->
        IF page = 1
        THEN SmallCatalog[1]
             \cup {RawJson(CatalogDoc(<<PriceProbe(b, s)>>)) : b \in PriceInputs, s \in PriceInputs}
             \cup {RawJson(CatalogDoc(<<PriceProbe(PInt(200), None), ProdC>>))}
        ELSE SmallCatalog[page]]

\* the upstream: what a passport GET, and what a GET of each catalog page of
\* each seller, may be answered with
PoolEnv ==
    [passport |-> PassportAnswers,
     catalog |-> [sid \in PoolIds \cup SellerIds |-> SmallCatalog]]

SellerEnv ==
    [passport |-> PassportAnswers,
     catalog |-> [sid \in PoolIds \cup SellerIds |->
                    IF sid = 7 THEN LargeCatalog
                    ELSE IF sid = 893739 THEN ProbeCatalog ELSE SmallCatalog]]

-----------------------------------------------------------------------------
(* Tasks of the event loop *)

\* export_data itself, and no task
Main == 0
Nobody == -1
Workers == 1..concurrency

\* a worker task as created at line 403, not yet run.  exc is the exception
\* in flight ("none", "Exception" for the AttributeError / TypeError of a fetch,
\* "CancelledError"); logged and appended_at are history: whether the
\* handler of line 392 (760) caught a fault for the current id, and len(rows)
\* right after its append.
\* raw is the exchange _get_json has just completed (NoExchange once the caller
\* has moved on); seen is history: the products scanned for the current id,
\* kept until the row is built; gets is history: the GETs issued for the
\* current id, <<"passport", vol>> or <<"catalog", page>>, kept as long as seen
NewWorker ==
    [pc |-> "new", sid |-> 0, pos |-> 0, cancel_req |-> FALSE, exc |-> "none",
     vols |-> <<>>, tried |-> <<>>, data |-> None, passport_raw |-> None,
     page |-> 0, acc |-> EmptyAcc, sample_raw |-> None,
     row |-> <<>>, logged |-> FALSE, appended_at |-> 0,
     raw |-> NoExchange, seen |-> <<>>, gets |-> <<>>]

\* lines 306-311, 402-403: queue filled, rows empty, lock free, tasks created;
\* export_data is about to await q.join()
\* a bug: one task too many
TasksOneMore(conc) == 1..(conc + 1)

\* line 403: one task per unit of concurrency
Tasks(conc) == 1..conc

InitCall(op, ids, conc, cb, e) ==
    /\ operation = op
    /\ csv_path = None
    /\ xlsx_path = None
    /\ sink_faults = {}
    /\ seller_ids = ids
    /\ concurrency = conc
    /\ cb_supplied = cb
    /\ env = e
    /\ q = ids
    /\ unfinished = Len(ids)
    /\ rows = <<>>
    /\ lock = Nobody
    /\ running = Main
    /\ mpc = "join"
    /\ result = None
    /\ wk = [w \in Tasks(conc) |-> NewWorker]
    /\ cb_log = <<>>
    /\ done_log = <<>>

\* a call of export_data
InitWith(ids, conc, cb, e) == InitCall("export_data", ids, conc, cb, e)

\* the default of export_data's concurrency argument
DefaultConcurrency == 10

\* the pool runs: up to MaxIds ids, up to MaxWorkers workers, a progress
\* callback; and the default concurrency over at most one id
Init ==
    \/ \E ids \in SeqsUpTo(PoolIds, MaxIds), conc \in 1..MaxWorkers :
          InitWith(ids, conc, TRUE, PoolEnv)
    \/ \E ids \in SeqsUpTo({7}, 1) : InitWith(ids, DefaultConcurrency, TRUE, PoolEnv)

\* the single-seller runs: at most one id, one worker, with and without a
\* callback
InitSeller ==
    \E ids \in SeqsUpTo(SellerIds, 1), cb \in BOOLEAN : InitWith(ids, 1, cb, SellerEnv)

Shared == <<seller_ids, concurrency, cb_supplied, env, operation>>

\* what the sinks left behind
Sink == <<csv_path, xlsx_path, sink_faults>>

-----------------------------------------------------------------------------
(* export_data.worker *)

\* the task starts: tasks run in creation order, before any response arrives
WorkerStart(w) ==
    /\ running = Nobody
    /\ wk[w].pc = "new"
    /\ ~wk[w].cancel_req
    /\ \A v \in Workers : v < w => wk[v].pc # "new"
    /\ running' = w
    /\ wk' = [wk EXCEPT ![w].pc = "get"]
    /\ UNCHANGED <<Shared, Sink, q, unfinished, rows, lock, mpc, result, cb_log, done_log>>

\* a task cancelled before its first step never enters the coroutine
WorkerNeverRun(w) ==
    /\ running = Nobody
    /\ wk[w].pc = "new"
    /\ wk[w].cancel_req
    /\ wk' = [wk EXCEPT ![w].pc = "stopped", ![w].exc = "CancelledError"]
    /\ UNCHANGED <<Shared, Sink, q, unfinished, rows, lock, running, mpc, result, cb_log, done_log>>

\* a bug: the head is read and left in the queue
DequeueKeep(queue) == queue

\* Queue.get's popleft
Dequeue(queue) == Tail(queue)

\* line 317: sid = await q.get(); an empty queue suspends the task.
\* With an id, fetch_passport is entered and lists its candidates (lines 119-125)
QueueGet(w) ==
    /\ running = w
    /\ wk[w].pc = "get"
    /\ IF q # <<>>
       THEN /\ wk' = [wk EXCEPT ![w] = [NewWorker EXCEPT
                         !.pc = "passport_loop", !.sid = Head(q),
                         !.cancel_req = wk[w].cancel_req,
                         !.pos = Len(seller_ids) - Len(q) + 1,
                         !.vols = PassportVols(Head(q)), !.data = None]]
            /\ q' = Dequeue(q)
            /\ UNCHANGED running
       ELSE /\ wk' = [wk EXCEPT ![w].pc = "wait_get"]
            /\ running' = Nobody
            /\ UNCHANGED q
    /\ UNCHANGED <<Shared, Sink, unfinished, rows, lock, mpc, result, cb_log, done_log>>

\* a bug: the loop entered again after the cancellation
OnCancelledContinue == "get"

\* lines 399-400: except asyncio.CancelledError: break
OnCancelled == "stopped"

\* lines 317, 399-400: CancelledError raised at q.get(), the loop is left
GetCancelled(w) ==
    /\ running = Nobody
    /\ wk[w].pc = "wait_get"
    /\ wk[w].cancel_req
    /\ wk' = [wk EXCEPT ![w].pc = OnCancelled, ![w].exc = "CancelledError"]
    /\ UNCHANGED <<Shared, Sink, q, unfinished, rows, lock, running, mpc, result, cb_log, done_log>>

\* lines 126-129: the next candidate is requested, or the loop is exhausted
PassportLoop(w) ==
    /\ running = w
    /\ wk[w].pc = "passport_loop"
    /\ IF wk[w].vols # <<>>
       THEN /\ wk' = [wk EXCEPT ![w].pc = "wait_passport", ![w].vols = Tail(@),
                          ![w].tried = Append(@, Head(wk[w].vols)),
                          ![w].gets = Append(@, <<"passport", Head(wk[w].vols)>>),
                          ![w].raw = NoExchange]
            /\ running' = Nobody
       ELSE /\ wk' = [wk EXCEPT ![w].pc = "passport_return", ![w].raw = NoExchange]
            /\ UNCHANGED running
    /\ UNCHANGED <<Shared, Sink, q, unfinished, rows, lock, mpc, result, cb_log, done_log>>

\* a bug: the break forgotten
AfterCheckNoBreak(data) == "passport_loop"

\* where the loop body goes after the exchange (lines 132-136): break on a
\* named seller; an exception of the check is caught and the loop continues
AfterCheck(data) ==
    IF NameCheckRaises(data) THEN "passport_loop"
    ELSE IF HasName(data) THEN "passport_return"
    ELSE "passport_loop"

\* lines 129-136: the exchange completes and the name check runs; a cancelled
\* task gets CancelledError instead, which no except clause below line 399
\* catches
PassportResponse(w) ==
    /\ running = Nobody
    /\ wk[w].pc = "wait_passport"
    /\ \A v \in Workers : wk[v].pc # "new"
    /\ IF wk[w].cancel_req
       THEN wk' = [wk EXCEPT ![w].pc = "except", ![w].exc = "CancelledError"]
       ELSE \E raw \in env.passport :
              wk' = [wk EXCEPT ![w].pc = AfterCheck(_get_json(raw)),
                               ![w].data = _get_json(raw),
                               ![w].raw = raw]
    /\ running' = w
    /\ UNCHANGED <<Shared, Sink, q, unfinished, rows, lock, mpc, result, cb_log, done_log>>

\* lines 139-161, 319; the check of line 139 is outside any try of
\* fetch_passport.  On return its locals are gone and fetch_goods_sample is
\* entered (lines 173-179)
PassportReturn(w) ==
    /\ running = w
    /\ wk[w].pc = "passport_return"
    /\ wk' = [wk EXCEPT ![w] =
                IF NameCheckRaises(wk[w].data)
                THEN [@ EXCEPT !.pc = "except", !.exc = "Exception", !.raw = NoExchange,
                                !.data = None, !.vols = <<>>, !.tried = <<>>]
                ELSE [@ EXCEPT !.pc = "catalog_loop", !.page = 1, !.acc = EmptyAcc,
                               !.raw = NoExchange,
                               !.data = None, !.vols = <<>>, !.tried = <<>>,
                               !.passport_raw = IF HasName(wk[w].data)
                                                THEN PassportResult(wk[w].data) ELSE None]]
    /\ UNCHANGED <<Shared, Sink, q, unfinished, rows, lock, running, mpc, result, cb_log, done_log>>

\* lines 180-185: the next page is requested, or the range is exhausted
CatalogLoop(w) ==
    /\ running = w
    /\ wk[w].pc = "catalog_loop"
    /\ IF wk[w].page <= Pages
       THEN /\ wk' = [wk EXCEPT ![w].pc = "wait_catalog", ![w].raw = NoExchange,
                          ![w].gets = Append(@, <<"catalog", wk[w].page>>)]
            /\ running' = Nobody
       ELSE /\ wk' = [wk EXCEPT ![w].pc = "finalize", ![w].raw = NoExchange]
            /\ UNCHANGED running
    /\ UNCHANGED <<Shared, Sink, q, unfinished, rows, lock, mpc, result, cb_log, done_log>>

\* lines 185-255: the exchange completes; the page raises, ends the scan, or
\* is accumulated
CatalogResponse(w) ==
    /\ running = Nobody
    /\ wk[w].pc = "wait_catalog"
    /\ IF wk[w].cancel_req
       THEN wk' = [wk EXCEPT ![w].pc = "except", ![w].exc = "CancelledError"]
       ELSE \E raw \in env.catalog[wk[w].sid][wk[w].page] :
              LET js == _get_json(raw)
              IN wk' = [wk EXCEPT ![w] =
                          IF PageRaises(js)
                          THEN [@ EXCEPT !.pc = "except", !.exc = "Exception",
                                          !.acc = EmptyAcc, !.page = 0, !.raw = raw]
                          ELSE IF PageStops(js)
                          THEN [@ EXCEPT !.pc = "finalize", !.raw = raw]
                          ELSE [@ EXCEPT !.pc = "catalog_loop", !.page = @ + 1,
                                         !.raw = raw,
                                         !.seen = @ \o PageProducts(js).v,
                                         !.acc = ScanPage(wk[w].acc, js)]]
    /\ running' = w
    /\ UNCHANGED <<Shared, Sink, q, unfinished, rows, lock, mpc, result, cb_log, done_log>>

\* lines 256-293, 320
FinalizeSample(w) ==
    /\ running = w
    /\ wk[w].pc = "finalize"
    /\ \E order \in Orders(wk[w].acc.promo_types_set) :
         wk' = [wk EXCEPT ![w].pc = "build", ![w].sample_raw = Finalize(wk[w].acc, order),
                          ![w].acc = EmptyAcc, ![w].page = 0, ![w].raw = NoExchange]
    /\ UNCHANGED <<Shared, Sink, q, unfinished, rows, lock, running, mpc, result, cb_log, done_log>>

\* lines 323-388
Build(w) ==
    /\ running = w
    /\ wk[w].pc = "build"
    /\ wk' = [wk EXCEPT ![w].pc = "acquire", ![w].seen = <<>>, ![w].gets = <<>>,
                        ![w].row = BuildRow(wk[w].sid, wk[w].passport_raw, wk[w].sample_raw)]
    /\ UNCHANGED <<Shared, Sink, q, unfinished, rows, lock, running, mpc, result, cb_log, done_log>>

\* line 390: async with lock.  A free lock is taken without suspending; a
\* held lock suspends the task until it is free
LockAcquire(w) ==
    /\ wk[w].pc = "acquire"
    /\ running \in {w, Nobody}
    /\ running = Nobody => lock = Nobody
    /\ IF lock = Nobody
       THEN /\ lock' = w
            /\ running' = w
            /\ wk' = [wk EXCEPT ![w].pc = "append"]
       ELSE /\ running' = Nobody
            /\ UNCHANGED <<lock, wk>>
    /\ UNCHANGED <<Shared, Sink, q, unfinished, rows, mpc, result, cb_log, done_log>>

\* a bug: the list is rebound to the new row instead of extended
Overwritten(r, row) == <<row>>

\* a bug: rows.insert(0, row)
Prepended(r, row) == <<row>> \o r

\* rows.append(row)
Appended(r, row) == Append(r, row)

\* line 391
RowsAppend(w) ==
    /\ running = w
    /\ wk[w].pc = "append"
    /\ rows' = Appended(rows, wk[w].row)
    /\ wk' = [wk EXCEPT ![w].pc = "release", ![w].appended_at = Len(rows')]
    /\ UNCHANGED <<Shared, Sink, q, unfinished, lock, running, mpc, result, cb_log, done_log>>

\* a bug: a suspension point between the append and the callback
AfterReleaseYield(w) == Nobody

\* Lock.release() is no suspension point: the releasing task keeps running
AfterRelease(w) == w

\* the end of the async with block of line 390
LockRelease(w) ==
    /\ running = w
    /\ wk[w].pc = "release"
    /\ lock' = Nobody
    /\ running' = AfterRelease(w)
    /\ wk' = [wk EXCEPT ![w].pc = "finally"]
    /\ UNCHANGED <<Shared, Sink, q, unfinished, rows, mpc, result, cb_log, done_log>>

\* a bug: a handler that catches nothing the fetches raise
CaughtNothing(exc) == FALSE

\* line 392: except Exception catches the faults of the fetches, not
\* CancelledError (a BaseException)
Caught(exc) == exc = "Exception"

\* a bug: the handler of export_html_report catches nothing
CaughtHtmlNothing(exc) == FALSE

\* line 760: the except Exception of export_html_report.worker
CaughtHtml(exc) == exc = "Exception"

\* the except clause of the worker of the export op
CaughtBy(op, exc) == IF op = "export_html_report" THEN CaughtHtml(exc) ELSE Caught(exc)

\* lines 392-394 (760-761 in export_html_report, which does not print): a
\* caught exception is dropped
ExceptAs(op, w) ==
    /\ running = w
    /\ wk[w].pc = "except"
    /\ wk' = [wk EXCEPT ![w] = IF CaughtBy(op, wk[w].exc)
                               THEN [@ EXCEPT !.pc = "finally", !.exc = "none", !.logged = TRUE,
                                              !.raw = NoExchange, !.seen = <<>>,
                                              !.gets = <<>>]
                               ELSE [@ EXCEPT !.pc = "finally", !.raw = NoExchange,
                                              !.seen = <<>>, !.gets = <<>>]]
    /\ UNCHANGED <<Shared, Sink, q, unfinished, rows, lock, running, mpc, result, cb_log, done_log>>

Except(w) == ExceptAs(operation, w)

\* a bug: the callback made part of the success path only
CallbackGuardOnSuccess(w) == cb_supplied /\ wk[w].appended_at > 0

\* line 396: if progress_cb
CallbackGuard(w) == cb_supplied

\* a bug: the number of rows still missing is reported
CbArgsRemaining(r, ids) == <<Len(ids) - Len(r), Len(ids)>>

\* the arguments of line 397
CbArgs(r, ids) == <<Len(r), Len(ids)>>

\* lines 395-397, by a task that is running or is resumed
Callback(w) ==
    /\ running \in {w, Nobody}
    /\ wk[w].pc = "finally"
    /\ running' = w
    /\ cb_log' = IF CallbackGuard(w) THEN Append(cb_log, CbArgs(rows, seller_ids)) ELSE cb_log
    /\ wk' = [wk EXCEPT ![w].pc = "task_done"]
    /\ UNCHANGED <<Shared, Sink, q, unfinished, rows, lock, mpc, result, done_log>>

\* lines 396-400 when progress_cb raises: the exception leaves the finally
\* clause before line 398, is no CancelledError for line 399, and ends the task
CallbackRaises(w) ==
    /\ running \in {w, Nobody}
    /\ wk[w].pc = "finally"
    /\ CallbackGuard(w)
    /\ cb_log' = Append(cb_log, CbArgs(rows, seller_ids))
    /\ wk' = [wk EXCEPT ![w].pc = "stopped", ![w].exc = "Exception"]
    /\ running' = Nobody
    /\ UNCHANGED <<Shared, Sink, q, unfinished, rows, lock, mpc, result, done_log>>

\* a bug: the completion of an item never counted
task_done_lost(n) == n

\* a bug: the completion of an item counted twice
task_done_twice(n) == n - 2

\* Queue.task_done: one unfinished item fewer
task_done(n) == n - 1

\* line 398; then the exception in flight, if any, leaves the loop: line 399
\* for CancelledError, the end of the task for any other; else line 315 again
TaskDone(w) ==
    /\ running = w
    /\ wk[w].pc = "task_done"
    /\ unfinished > 0
    /\ unfinished' = task_done(unfinished)
    /\ done_log' = Append(done_log, [w |-> w, pos |-> wk[w].pos, sid |-> wk[w].sid,
                                     fault |-> wk[w].logged, row |-> wk[w].appended_at > 0])
    /\ IF wk[w].exc # "none"
       THEN /\ wk' = [wk EXCEPT ![w].pc = "stopped"]
            /\ running' = Nobody
       ELSE /\ wk' = [wk EXCEPT ![w].pc = "get"]
            /\ UNCHANGED running
    /\ UNCHANGED <<Shared, Sink, q, rows, lock, mpc, result, cb_log>>

-----------------------------------------------------------------------------
(* export_data *)

\* a bug: the join that does not wait
FinishedEarly(n) == TRUE

\* a bug: the queue never reports completion
FinishedNever(n) == FALSE

\* Queue.join's condition: no unfinished item
Finished(n) == n = 0

\* line 404: await q.join() returns at once when nothing is unfinished
Join ==
    /\ running = Main
    /\ mpc = "join"
    /\ IF Finished(unfinished)
       THEN mpc' = "cancel" /\ UNCHANGED running
       ELSE mpc' = "wait_join" /\ running' = Nobody
    /\ UNCHANGED <<Shared, Sink, q, unfinished, rows, lock, result, wk, cb_log, done_log>>

\* the queue reports every item done
JoinWake ==
    /\ running = Nobody
    /\ mpc = "wait_join"
    /\ Finished(unfinished)
    /\ running' = Main
    /\ mpc' = "cancel"
    /\ UNCHANGED <<Shared, Sink, q, unfinished, rows, lock, result, wk, cb_log, done_log>>

\* lines 405-407: every task is cancelled, then gathered
CancelAll ==
    /\ running = Main
    /\ mpc = "cancel"
    /\ wk' = [w \in Workers |-> IF wk[w].pc = "stopped" THEN wk[w]
                                 ELSE [wk[w] EXCEPT !.cancel_req = TRUE]]
    /\ mpc' = "wait_gather"
    /\ running' = Nobody
    /\ UNCHANGED <<Shared, Sink, q, unfinished, rows, lock, result, cb_log, done_log>>

\* a bug: the gather that does not wait
GatheredAtOnce == TRUE

\* asyncio.gather's condition: every task is done
Gathered == \A w \in Workers : wk[w].pc = "stopped"

\* line 407: every task has finished
GatherWake ==
    /\ running = Nobody
    /\ mpc = "wait_gather"
    /\ Gathered
    /\ running' = Main
    /\ mpc' = "save"
    /\ UNCHANGED <<Shared, Sink, q, unfinished, rows, lock, result, wk, cb_log, done_log>>

\* lines 409-416 of export_data: the rows are written and counted
SaveOk ==
    /\ running = Main
    /\ mpc = "save"
    /\ operation = "export_data"
    /\ mpc' = "returned"
    /\ result' = PInt(Len(rows))
    /\ running' = Nobody
    /\ UNCHANGED <<Shared, Sink, q, unfinished, rows, lock, wk, cb_log, done_log>>

\* a bug: the failure of the sink swallowed
SaveFailsSilently ==
    /\ running = Main
    /\ mpc = "save"
    /\ operation = "export_data"
    /\ mpc' = "returned"
    /\ result' = PInt(Len(rows))
    /\ sink_faults' = sink_faults \cup {"file"}
    /\ running' = Nobody
    /\ UNCHANGED <<Shared, csv_path, xlsx_path, q, unfinished, rows, lock, wk, cb_log, done_log>>

\* lines 410-414 of export_data: pandas or the file system raises, and nothing
\* of export_data catches it
SaveFails ==
    /\ running = Main
    /\ mpc = "save"
    /\ operation = "export_data"
    /\ mpc' = "raised"
    /\ result' = [t |-> "exc", v |-> "sink"]
    /\ sink_faults' = sink_faults \cup {"file"}
    /\ running' = Nobody
    /\ UNCHANGED <<Shared, csv_path, xlsx_path, q, unfinished, rows, lock, wk, cb_log, done_log>>

-----------------------------------------------------------------------------
(* export_html_report: the same pool (lines 680-774), then three sinks *)

\* lines 776-786: df.to_csv inside try / except Exception; a failure leaves
\* csv_path None
ReportCsv ==
    /\ running = Main
    /\ mpc = "save"
    /\ operation = "export_html_report"
    /\ \E ok \in BOOLEAN :
         /\ csv_path' = IF ok THEN PStr("base.csv") ELSE None
         /\ sink_faults' = IF ok THEN sink_faults ELSE sink_faults \cup {"csv"}
    /\ mpc' = "save_xlsx"
    /\ UNCHANGED <<Shared, xlsx_path, q, unfinished, rows, lock, running, result, wk,
                   cb_log, done_log>>

\* lines 787-790: df.to_excel inside try / except Exception
ReportXlsx ==
    /\ running = Main
    /\ mpc = "save_xlsx"
    /\ \E ok \in BOOLEAN :
         /\ xlsx_path' = IF ok THEN PStr("base.xlsx") ELSE None
         /\ sink_faults' = IF ok THEN sink_faults ELSE sink_faults \cup {"xlsx"}
    /\ mpc' = "render"
    /\ UNCHANGED <<Shared, csv_path, q, unfinished, rows, lock, running, result, wk,
                   cb_log, done_log>>

\* lines 792-797: the page is written and its path returned
RenderOk ==
    /\ running = Main
    /\ mpc = "render"
    /\ mpc' = "returned"
    /\ result' = PStr("output_html_path")
    /\ running' = Nobody
    /\ UNCHANGED <<Shared, Sink, q, unfinished, rows, lock, wk, cb_log, done_log>>

\* line 795: _render_html_report raises, outside any try
RenderFails ==
    /\ running = Main
    /\ mpc = "render"
    /\ mpc' = "raised"
    /\ result' = [t |-> "exc", v |-> "sink"]
    /\ sink_faults' = sink_faults \cup {"html"}
    /\ running' = Nobody
    /\ UNCHANGED <<Shared, csv_path, xlsx_path, q, unfinished, rows, lock, wk, cb_log, done_log>>

-----------------------------------------------------------------------------
(* The specifications *)

Next ==
    \/ \E w \in Workers : WorkerStart(w)
    \/ \E w \in Workers : WorkerNeverRun(w)
    \/ \E w \in Workers : QueueGet(w)
    \/ \E w \in Workers : GetCancelled(w)
    \/ \E w \in Workers : PassportLoop(w)
    \/ \E w \in Workers : PassportResponse(w)
    \/ \E w \in Workers : PassportReturn(w)
    \/ \E w \in Workers : CatalogLoop(w)
    \/ \E w \in Workers : CatalogResponse(w)
    \/ \E w \in Workers : FinalizeSample(w)
    \/ \E w \in Workers : Build(w)
    \/ \E w \in Workers : LockAcquire(w)
    \/ \E w \in Workers : RowsAppend(w)
    \/ \E w \in Workers : LockRelease(w)
    \/ \E w \in Workers : Except(w)
    \/ \E w \in Workers : Callback(w)
    \/ \E w \in Workers : TaskDone(w)
    \/ Join \/ JoinWake \/ CancelAll \/ GatherWake \/ SaveOk \/ SaveFails

Spec == Init /\ [][Next]_vars

SpecSeller == InitSeller /\ [][Next]_vars

\* the pool runs under a scheduler that runs a ready task whenever there is one,
\* with every HTTP exchange completing (aiohttp's total timeout, line 9)
SpecLive == Init /\ [][Next]_vars /\ WF_vars(Next)

\* either export, over at most one id
InitExport ==
    \E op \in {"export_data", "export_html_report"}, ids \in SeqsUpTo(PoolIds, 1) :
        InitCall(op, ids, 1, TRUE, PoolEnv)

\* either export as a pool of workers
InitBoth ==
    \E op \in {"export_data", "export_html_report"},
       ids \in SeqsUpTo(PoolIds, MaxIds), conc \in 1..MaxWorkers :
        InitCall(op, ids, conc, TRUE, PoolEnv)

\* one id on either side of each threshold of the candidate volumes
VolIds == {7, 999, 1000, 5500, 9999, 10000, 893739}

VolEnv ==
    [passport |-> PassportAnswers,
     catalog |-> [sid \in VolIds |-> SmallCatalog]]

InitVols == \E ids \in SeqsUpTo(VolIds, 1) : InitWith(ids, 1, TRUE, VolEnv)

\* export_data over one id of VolIds
SpecVols == InitVols /\ [][Next]_vars

\* the pool runs with a progress callback that may raise
NextCb == Next \/ \E w \in Workers : CallbackRaises(w)

SpecCb == Init /\ [][NextCb]_vars /\ WF_vars(NextCb)

NextExport == Next \/ ReportCsv \/ ReportXlsx \/ RenderOk \/ RenderFails

SpecExport == InitExport /\ [][NextExport]_vars

SpecBoth == InitBoth /\ [][NextExport]_vars

-----------------------------------------------------------------------------
(* Vocabulary of the properties *)

\* the pool has finished: q.join() returned and every task was gathered
PoolDone == mpc \in {"save", "returned", "raised"}

NIds == Len(seller_ids)

Distinct(s) == \A i, j \in 1..Len(s) : i # j => s[i] # s[j]

\* a worker between its q.get() and its q.task_done()
Busy(w) == wk[w].pc \notin {"new", "get", "wait_get", "stopped"}

\* the ids, in completion order, for which done_log records a row
RECURSIVE RowSids(_)
RowSids(log) ==
    IF log = <<>> THEN <<>>
    ELSE (IF log[1].row THEN <<log[1].sid>> ELSE <<>>) \o RowSids(Tail(log))

NFaults == Cardinality({i \in 1..Len(done_log) : done_log[i].fault})

Last(s) == s[Len(s)]

-----------------------------------------------------------------------------
(* Properties of the pool *)

\* C1: over N distinct ids none of which faults, the result collection holds
\* exactly N rows, one per id, when the pool has finished, and export_data
\* returns N.
C1_RowPerFaultFreeId ==
    (PoolDone /\ Distinct(seller_ids) /\ NFaults = 0) =>
        /\ Len(rows) = NIds
        /\ \A p \in 1..NIds : \E i \in 1..Len(rows) : rows[i][1] = PInt(seller_ids[p])
        /\ mpc = "returned" => result = PInt(NIds)

C1_Witness ==
    /\ mpc = "returned" /\ concurrency = 2 /\ NIds = 2 /\ Distinct(seller_ids)
    /\ NFaults = 0 /\ result = PInt(2)
    /\ done_log[1].w # done_log[2].w

\* C2: every occurrence of an id in the input is dequeued by exactly one
\* worker and processed exactly once; none is left when the pool has finished;
\* an id that occurs k times is processed k times.
C2_OnceEach ==
    /\ \A w \in Workers : Busy(w) =>
          /\ wk[w].pos \in 1..NIds
          /\ wk[w].sid = seller_ids[wk[w].pos]
          /\ \A v \in Workers : (v # w /\ Busy(v)) => wk[v].pos # wk[w].pos
          /\ \A i \in 1..Len(done_log) : done_log[i].pos # wk[w].pos
    /\ \A i, j \in 1..Len(done_log) : i # j => done_log[i].pos # done_log[j].pos
    /\ \A i \in 1..Len(done_log) :
          done_log[i].pos \in 1..NIds /\ done_log[i].sid = seller_ids[done_log[i].pos]
    /\ PoolDone => {done_log[i].pos : i \in 1..Len(done_log)} = 1..NIds

C2_Witness ==
    /\ PoolDone /\ NIds = 2 /\ seller_ids[1] = seller_ids[2]
    /\ Len(done_log) = 2 /\ done_log[1].w # done_log[2].w
    /\ done_log[1].pos = 2

\* C3: a fault while one id is processed omits that id's row only: the worker
\* logs it and goes on, it is stopped by cancellation alone, every other id
\* has its row, and export_data raises for no reason but a failing sink.
C3_FaultIsLocal ==
    /\ \A w \in Workers : wk[w].pc = "stopped" => wk[w].exc = "CancelledError"
    /\ \A i \in 1..Len(done_log) : done_log[i].row = ~done_log[i].fault
    /\ Len(rows) = Cardinality({i \in 1..Len(done_log) : done_log[i].row})
                   + Cardinality({w \in Workers : Busy(w) /\ wk[w].appended_at > 0})
    /\ PoolDone =>
          /\ Len(done_log) = NIds
          /\ [i \in 1..Len(rows) |-> rows[i][1].v] = RowSids(done_log)
    /\ mpc = "raised" => result = [t |-> "exc", v |-> "sink"]

C3_Witness ==
    /\ mpc = "returned" /\ concurrency = 1 /\ NIds = 2
    /\ done_log[1].fault /\ done_log[1].w = 1
    /\ done_log[2].row /\ done_log[2].w = 1
    /\ result = PInt(1)

\* a row built without a seller name and without a counted category
NothingFound(row) == IsNone(row[2]) /\ (IsNone(row[10]) \/ row[10] = PInt(0))

\* the columns that are not null when nothing was found: ID, the seller link,
\* the category count and the promotion count
IdColumns == {1, 5, 10, 34}

\* C4 as claimed: every dispatched id has a row, and a row for which neither a
\* passport nor a product was found is null in every column but the ID.
C4_Original ==
    /\ PoolDone => \A p \in 1..NIds : \E i \in 1..Len(rows) : rows[i][1] = PInt(seller_ids[p])
    /\ \A i \in 1..Len(rows) :
          NothingFound(rows[i]) => \A c \in 2..NCOLUMNS : IsNone(rows[i][c])

\* C4: every dispatched id that did not fault has a row, also when no passport
\* candidate succeeds and the catalog yields no product; such a row is null in
\* every column except the ID, the seller link, the category count (0) and
\* the promotion count (0).
C4_RowWhenNothingFound ==
    /\ PoolDone => [i \in 1..Len(rows) |-> rows[i][1].v] = RowSids(done_log)
    /\ PoolDone => \A i \in 1..Len(done_log) : done_log[i].row = ~done_log[i].fault
    /\ \A i \in 1..Len(rows) :
          NothingFound(rows[i]) =>
             /\ \A c \in (1..NCOLUMNS) \ IdColumns : IsNone(rows[i][c])
             /\ rows[i][5] = FStr("https://www.wildberries.ru/seller/{sid}", rows[i][1])
             /\ rows[i][10] = PInt(0)
             /\ rows[i][34] = PInt(0)

C4_Witness ==
    /\ PoolDone /\ NIds = 2 /\ NFaults = 1
    /\ Len(rows) = 1 /\ NothingFound(rows[1])

\* C5: once every id has been attempted, the last invocation of the progress
\* callback was made with completed = total = N.
C5_FinalCallback ==
    (PoolDone /\ cb_supplied /\ NIds > 0) => Last(cb_log) = <<NIds, NIds>>

\* C6: a supplied progress callback is invoked once for every id, on success
\* and on fault alike: the invocations are as many as the ids marked done
\* (and the one being marked), so at least N when the pool has finished.
C6_CallbackPerId ==
    cb_supplied =>
        /\ Len(cb_log) = Len(done_log) + Cardinality({w \in Workers : wk[w].pc = "task_done"})
        /\ PoolDone => Len(cb_log) >= NIds

C6_Witness ==
    /\ PoolDone /\ cb_supplied /\ NIds = 2
    /\ done_log[1].fault /\ done_log[2].row
    /\ Len(cb_log) = 2

\* C7: over the whole run and all workers, completed never decreases from one
\* invocation of the callback to the next, and total is always the number of
\* ids.
C7_CompletedMonotone ==
    /\ \A i \in 1..Len(cb_log) : cb_log[i][2] = NIds
    /\ \A i \in 1..Len(cb_log) - 1 : cb_log[i][1] <= cb_log[i + 1][1]

C7_Witness ==
    /\ PoolDone /\ concurrency = 2 /\ Len(done_log) = 2 /\ done_log[1].w # done_log[2].w
    /\ cb_log = <<(<<1, 2>>), (<<2, 2>>)>>

\* C8 as claimed: the callback for an appended row is invoked under the lock
\* that covered the append.
C8_Original ==
    \A w \in Workers : (wk[w].pc = "finally" /\ wk[w].appended_at > 0) => lock = w

\* C8: the row is appended under the lock; the callback is invoked after the
\* lock was released, with no suspension between the two, so no other worker
\* appends in between and completed is the length of the collection right
\* after the worker's own append.
C8_AppendThenCallback ==
    \A w \in Workers :
        /\ wk[w].pc \in {"append", "release"} => lock = w /\ running = w
        /\ (wk[w].pc = "finally" /\ wk[w].appended_at > 0) =>
              lock = Nobody /\ running = w /\ Len(rows) = wk[w].appended_at
        /\ (wk[w].pc = "task_done" /\ wk[w].appended_at > 0 /\ cb_supplied) =>
              Last(cb_log)[1] = wk[w].appended_at /\ Len(rows) = wk[w].appended_at

C8_Witness ==
    \E w, v \in Workers :
        /\ w # v /\ wk[w].pc = "task_done" /\ wk[w].appended_at = 1
        /\ wk[v].pc = "wait_catalog"
        /\ Last(cb_log) = <<1, 2>>

-----------------------------------------------------------------------------
(* Properties of one seller *)

\* the leading entries of s that are not None
RECURSIVE Filled(_)
Filled(s) == IF s = <<>> \/ IsNone(s[1]) THEN 0 ELSE 1 + Filled(Tail(s))

\* the leading discount items of s that are not the all-None item
RECURSIVE FilledItems(_)
FilledItems(s) == IF s = <<>> \/ s[1] = NoneItem THEN 0 ELSE 1 + FilledItems(Tail(s))

Min3(n) == IF n < 3 THEN n ELSE 3

\* the sample returned to worker w, once fetch_goods_sample has returned
HasSample(w) == wk[w].pc \in {"build", "acquire", "append", "release"}

\* C9: topSubjects, topBrands and topDiscountItems have exactly 3 slots
\* whatever was scanned; the slots not filled are None (the tuple of 8 None
\* for a discount item) and follow the filled ones, and the row carries the
\* same three slots of each list.
C9_ThreeSlots ==
    \A w \in Workers : HasSample(w) =>
        LET sample == wk[w].sample_raw.v
            subjects == sample.topSubjects.v
            brands == sample.topBrands.v
            items == sample.topDiscountItems.v
        IN /\ Len(subjects) = 3 /\ Len(brands) = 3 /\ Len(items) = 3
           /\ Filled(subjects) = Min3(sample.subjectsCount.v)
           /\ \A i \in 1..3 : i > Filled(subjects) => IsNone(subjects[i])
           /\ \A i \in 1..3 : i > Filled(brands) => IsNone(brands[i])
           /\ \A i \in 1..3 : Len(items[i]) = 8
           /\ \A i \in 1..3 : i > FilledItems(items) => items[i] = NoneItem
           /\ \A i \in 1..3 : (~IsNone(items[i][2])) <=> i <= FilledItems(items)
           /\ wk[w].pc # "build" =>
                 /\ SubSeq(wk[w].row, 11, 13) = subjects
                 /\ SubSeq(wk[w].row, 14, 16) = brands
                 /\ \A i \in 1..3 : wk[w].row[27 + 9 * i] = items[i][1]

C9_Witness ==
    \E w \in Workers :
        /\ wk[w].pc = "acquire"
        /\ wk[w].sample_raw.v.subjectsCount.v > 3
        /\ FilledItems(wk[w].sample_raw.v.topDiscountItems.v) = 3

\* the candidate volumes of worker w: those requested and those still to try
Candidates(w) == wk[w].tried \o wk[w].vols

InPassport(w) == wk[w].pc \in {"passport_loop", "wait_passport", "passport_return"}

\* s is <<0, sid div 1000, sid div 10000>> with the later duplicates dropped
FirstOccurrences(s, sid) ==
    LET raw == <<0, sid \div 1000, sid \div 10000>>
        keep == {i \in 1..3 : \A j \in 1..(i - 1) : raw[j] # raw[i]}
    IN /\ Len(s) = Cardinality(keep)
       /\ \A k \in 1..Len(s) :
             \E i \in keep : s[k] = raw[i] /\ Cardinality({j \in keep : j < i}) = k - 1

\* C10 as claimed: for id 893739 the candidates are [0, 893, 0], deduplicated
\* to [0, 893].
C10_Original ==
    \A w \in Workers : InPassport(w) =>
        /\ FirstOccurrences(Candidates(w), wk[w].sid)
        /\ wk[w].sid = 893739 => Candidates(w) = <<0, 893>>

\* C10: the candidate volumes are 0, id div 1000, id div 10000 with duplicates
\* dropped and first occurrences kept; for id 893739 they are [0, 893, 89],
\* before and after the deduplication.
C10_CandidateVolumes ==
    \A w \in Workers : InPassport(w) =>
        /\ FirstOccurrences(Candidates(w), wk[w].sid)
        /\ wk[w].sid = 893739 =>
              /\ possible_vols(wk[w].sid) = <<0, 893, 89>>
              /\ Candidates(w) = <<0, 893, 89>>

C10_Witness ==
    \E w \in Workers :
        /\ wk[w].sid = 893739 /\ wk[w].pc = "passport_return"
        /\ wk[w].tried = <<0, 893, 89>> /\ wk[w].vols = <<>>

-----------------------------------------------------------------------------
(* Properties of fetch_passport *)

\* the step of worker w leaves position p
Leaves(w, p) == wk[w].pc = p /\ wk'[w].pc # p

\* C11: the candidates are requested in list order, one GET each (the volumes
\* tried are a prefix of the candidate list); a request is made, or the loop
\* continued, only while no response so far carried a seller name; a response
\* with a seller name ends the loop at once, the later candidates unrequested;
\* and what fetch_passport returns is built from that response, None when the
\* last response has no name.
C11_FirstSuccessWins ==
    /\ [](\A w \in Workers : InPassport(w) =>
            /\ FirstOccurrences(Candidates(w), wk[w].sid)
            /\ wk[w].pc \in {"passport_loop", "wait_passport"} => ~HasName(wk[w].data)
            /\ wk[w].pc = "passport_return" /\ ~HasName(wk[w].data) => wk[w].vols = <<>>)
    /\ [][\A w \in Workers :
            /\ Leaves(w, "wait_passport") /\ HasName(wk'[w].data) =>
                  /\ wk'[w].pc = "passport_return"
                  /\ wk'[w].tried = wk[w].tried /\ wk'[w].vols = wk[w].vols
            /\ Leaves(w, "passport_return") =>
                  IF HasName(wk[w].data)
                  THEN /\ wk'[w].pc = "catalog_loop"
                       /\ wk'[w].passport_raw = PassportResult(wk[w].data)
                       /\ DGet(wk'[w].passport_raw, "supplierName")
                            = DGet(wk[w].data, "supplierName")
                  ELSE wk'[w].pc = "catalog_loop" => IsNone(wk'[w].passport_raw)]_vars

\* the second of three candidates answered with a seller name: the third is
\* left unrequested
C11_Witness ==
    \E w \in Workers :
        /\ wk[w].sid = 893739 /\ wk[w].pc = "passport_return"
        /\ HasName(wk[w].data)
        /\ wk[w].tried = <<0, 893>> /\ wk[w].vols = <<89>>

\* C12: fetch_passport never fails: whatever the candidates answer, a response
\* without a usable seller name only moves the loop on, and the call returns
\* (a record, or None when no candidate succeeded) instead of raising.
C12_PassportNeverRaises ==
    [][\A w \in Workers :
          /\ Leaves(w, "wait_passport") /\ ~wk[w].cancel_req =>
                wk'[w].pc \in {"passport_loop", "passport_return"}
          /\ Leaves(w, "passport_return") =>
                wk'[w].pc = "catalog_loop" /\ wk'[w].exc = "none"]_vars

-----------------------------------------------------------------------------
(* Properties of fetch_goods_sample *)

InCatalog(w) == wk[w].pc \in {"catalog_loop", "wait_catalog", "finalize"}

\* an exchange that yields no product: a failed one, or a document whose
\* product list is empty
EmptyPage(raw) == raw \in RawFailures \/ raw = RawJson(CatalogDoc(<<>>))

\* C13: the catalog pages are requested in increasing order from page 1, one
\* at a time and never beyond the page count; a page without products ends
\* the scan normally, with no exception and no later request for that seller.
C13_PagesInOrder ==
    /\ [](\A w \in Workers : InCatalog(w) =>
            /\ wk[w].pc = "wait_catalog" => wk[w].page \in 1..Pages
            /\ wk[w].pc = "catalog_loop" => wk[w].page \in 1..(Pages + 1)
            /\ EmptyPage(wk[w].raw) =>
                  wk[w].pc = "finalize" /\ wk[w].exc = "none" /\ wk[w].page <= Pages)
    /\ [][\A w \in Workers :
            /\ Leaves(w, "passport_return") /\ wk'[w].pc = "catalog_loop" => wk'[w].page = 1
            /\ Leaves(w, "catalog_loop") =>
                  \/ wk'[w].pc = "wait_catalog" /\ wk'[w].page = wk[w].page
                  \/ wk'[w].pc = "finalize" /\ wk[w].page = Pages + 1
            /\ Leaves(w, "wait_catalog") /\ ~wk[w].cancel_req =>
                  \/ wk'[w].pc = "catalog_loop" /\ wk'[w].page = wk[w].page + 1
                     /\ Len(wk'[w].seen) > Len(wk[w].seen)
                  \/ wk'[w].pc = "finalize" /\ wk'[w].page = wk[w].page
                     /\ wk'[w].acc = wk[w].acc
                  \/ wk'[w].pc = "except"
            /\ Leaves(w, "finalize") => wk'[w].pc = "build"]_vars

\* page 2 came back without products after a page 1 with some: the scan is
\* over and page 3 is never requested
C13_Witness ==
    \E w \in Workers :
        /\ wk[w].pc = "finalize" /\ wk[w].page = 2
        /\ EmptyPage(wk[w].raw) /\ Len(wk[w].seen) > 0

Abs(n) == IF n < 0 THEN 0 - n ELSE n

\* d (in hundredths) is a whole number of tenths and the one nearest to
\* (b - p) / b * 100
NearestTenth(d, b, p) ==
    /\ d % 10 = 0
    /\ 2 * Abs(d * b - (b - p) * 10000) <= 10 * b

Carried(g, k) ==
    IF ~IsNone(DGet(PriceBlock(g), k)) THEN DGet(PriceBlock(g), k)
    ELSE IF k = "basic" THEN DGet(g, "priceU")
    ELSE IF k = "product" THEN DGet(g, "salePriceU")
    ELSE None

\* some scanned product carries a value for component k
Observed(gs, k) == \E i \in 1..Len(gs) : ~IsNone(Carried(gs[i], k))

\* some scanned product carries a non-zero value under field k
ObservedNonZero(gs, k) == \E i \in 1..Len(gs) : Truthy(DGet(gs[i], k))

\* C15: each aggregate of the sample is null if and only if no scanned product
\* carried a value for it: the price aggregates per price component present,
\* the rating and feedback aggregates per non-zero rating and feedback count,
\* the discount aggregates per product.
C15_NullIffNoValue ==
    \A w \in Workers : wk[w].pc = "build" =>
        LET gs == wk[w].seen
            sample == wk[w].sample_raw
            Null(k) == IsNone(DGet(sample, k))
        IN /\ \A k \in {"basicMin", "basicAvg", "basicMax"} : Null(k) <=> ~Observed(gs, "basic")
           /\ \A k \in {"productMin", "productAvg", "productMax"} :
                 Null(k) <=> ~Observed(gs, "product")
           /\ \A k \in {"totalMin", "totalAvg", "totalMax"} : Null(k) <=> ~Observed(gs, "total")
           /\ Null("logisticsAvg") <=> ~Observed(gs, "logistics")
           /\ \A k \in {"priceMin", "priceAvg", "priceMax"} :
                 Null(k) <=> ~(Observed(gs, "basic") \/ Observed(gs, "product"))
           /\ Null("ratingAvgProd") <=> ~ObservedNonZero(gs, "rating")
           /\ Null("feedbacksSum") <=> ~ObservedNonZero(gs, "feedbacks")
           /\ \A k \in {"discountAvg", "discountMax"} : Null(k) <=> gs = <<>>

\* the rows a run may build for worker w's seller from the responses w has
\* received: one per iteration order of the set of promotional labels
RowsOfResponses(w) ==
    LET acc == ScanProducts(EmptyAcc, wk[w].seen)
    IN {BuildRow(wk[w].sid, wk[w].passport_raw, Finalize(acc, order)) :
          order \in Orders(acc.promo_types_set)}

\* C16: two runs over the same ids against identical responses build rows
\* equal in every field, the promotional-label field included: the row a run
\* is about to build from its responses is the only row any run can build
\* from them.
C16_SameResponsesSameRow ==
    \A w \in Workers : wk[w].pc = "build" =>
        RowsOfResponses(w) = {BuildRow(wk[w].sid, wk[w].passport_raw, wk[w].sample_raw)}

-----------------------------------------------------------------------------
(* Termination of the pool *)

\* export_data is over: it returned the row count or propagated a sink fault
Completed == mpc \in {"returned", "raised"}

\* C17: with every exchange completing and at least one worker, the pool
\* finishes: the queue reports every item done, every worker is sent the
\* cancellation, every worker stops, and export_data completes, for good.
C17_PoolFinishes ==
    <>[](/\ Completed
         /\ unfinished = 0 /\ q = <<>>
         /\ Len(done_log) = NIds
         /\ \A w \in Workers : wk[w].cancel_req /\ wk[w].pc = "stopped")

\* two ids went through two workers, the workers stopped and export_data
\* returned
C17_Witness ==
    /\ mpc = "returned" /\ NIds = 2 /\ concurrency = 2
    /\ \A w \in Workers : wk[w].pc = "stopped" /\ wk[w].exc = "CancelledError"
    /\ \E i, j \in 1..Len(done_log) : done_log[i].w # done_log[j].w

-----------------------------------------------------------------------------
(* Properties of the rows *)

\* what each column is named after: a passport field, a sample field, the
\* i-th top category or brand, or a field of the i-th discount item
PassportColumns ==
    {<<"Seller", "supplierName">>, <<"Full name", "supplierFullName">>,
     <<"Trademark", "trademark">>, <<"INN", "inn">>, <<"KPP", "kpp">>, <<"OGRN", "ogrn">>,
     <<"Address", "address">>}
SampleColumns ==
    {<<"Categories", "subjectsCount">>, <<"Price min", "priceMin">>,
     <<"Price avg", "priceAvg">>, <<"Price max", "priceMax">>,
     <<"Price basic min", "basicMin">>, <<"Price basic avg", "basicAvg">>,
     <<"Price basic max", "basicMax">>, <<"Price product min", "productMin">>,
     <<"Price product avg", "productAvg">>, <<"Price product max", "productMax">>,
     <<"Price total min", "totalMin">>, <<"Price total avg", "totalAvg">>,
     <<"Price total max", "totalMax">>, <<"Price logistics avg", "logisticsAvg">>,
     <<"Avg product rating", "ratingAvgProd">>,
     <<"Sum of product feedbacks", "feedbacksSum">>,
     <<"Avg discount %", "discountAvg">>, <<"Max discount %", "discountMax">>,
     <<"Promo count", "promoCount">>, <<"Promo types", "promoTypes">>}
TopCategoryColumns == <<"Top category 1", "Top category 2", "Top category 3">>
TopBrandColumns == <<"Top brand 1", "Top brand 2", "Top brand 3">>
\* per discount item: the column of each tuple field, then the link column
ItemColumns ==
    <<<<"DiscItem1", "Disc%1", "Promo1", "Price basic 1", "Price product 1",
        "Price total 1", "Price logistics 1", "Rating1", "ItemLink1">>,
      <<"DiscItem2", "Disc%2", "Promo2", "Price basic 2", "Price product 2",
        "Price total 2", "Price logistics 2", "Rating2", "ItemLink2">>,
      <<"DiscItem3", "Disc%3", "Promo3", "Price basic 3", "Price product 3",
        "Price total 3", "Price logistics 3", "Rating3", "ItemLink3">>>>

\* the values column c may hold for seller sid, given what the two fetches
\* returned (passport a dict or None, sample a dict): a set, one value for a
\* column this vocabulary names
ColumnValues(c, sid, passport, sample) ==
    (IF c = "ID" THEN {PInt(sid)} ELSE {})
    \cup (IF c = "Link"
          THEN {FStr("https://www.wildberries.ru/seller/{sid}", PInt(sid))} ELSE {})
    \cup {IF IsNone(passport) THEN None ELSE DGet(passport, pc[2]) :
             pc \in {x \in PassportColumns : x[1] = c}}
    \cup {DGet(sample, sc[2]) : sc \in {x \in SampleColumns : x[1] = c}}
    \cup {DGet(sample, "topSubjects").v[i] : i \in {j \in 1..3 : TopCategoryColumns[j] = c}}
    \cup {DGet(sample, "topBrands").v[i] : i \in {j \in 1..3 : TopBrandColumns[j] = c}}
    \cup UNION {{DGet(sample, "topDiscountItems").v[i][f] :
                    f \in {g \in 1..8 : ItemColumns[i][g] = c}} : i \in 1..3}
    \cup UNION {{IF Truthy(DGet(sample, "topDiscountItems").v[i][1])
                 THEN FStr("https://www.wildberries.ru/catalog/{gid}/detail.aspx",
                           DGet(sample, "topDiscountItems").v[i][1])
                 ELSE None :
                    f \in {g \in {9} : ItemColumns[i][g] = c}} : i \in 1..3}

\* C18: every row built, and every row of the result collection, has one
\* value per column of COLUMNS (62), and the value at each position is the
\* one the column at that position names, whatever is absent.
C18_RowAligned ==
    /\ Len(COLUMNS) = NCOLUMNS
    /\ \A i \in 1..Len(rows) : Len(rows[i]) = Len(COLUMNS)
    /\ \A w \in Workers : wk[w].pc \in {"acquire", "append"} =>
          /\ Len(wk[w].row) = Len(COLUMNS)
          /\ \A i \in 1..Len(wk[w].row) :
                ColumnValues(COLUMNS[i], wk[w].sid, wk[w].passport_raw, wk[w].sample_raw)
                    = {wk[w].row[i]}
    /\ \A w \in Workers : wk[w].pc = "release" => Last(rows) = wk[w].row

\* a row was appended for a seller without passport and with one product:
\* the passport columns and the columns of the second and third discount
\* item hold nulls
C18_Witness ==
    /\ Len(rows) = 1
    /\ IsNone(rows[1][2]) /\ IsNone(rows[1][9])
    /\ ~IsNone(rows[1][36]) /\ IsNone(rows[1][45]) /\ IsNone(rows[1][62])

-----------------------------------------------------------------------------
(* Properties of _get_json *)

\* an exchange that failed: no connection, a timeout, a status other than
\* 200, an empty body, a body that is not JSON
Failed(raw) ==
    /\ raw # NoExchange
    /\ \/ raw.net \in {"error", "timeout"}
       \/ raw.status # 200
       \/ raw.body.kind \in {"empty", "invalid"}

\* C19: whichever way an exchange fails, its caller gets None and no
\* exception: the passport loop goes on with data = None, the catalog scan
\* ends as on an empty page; the step touches no other worker, whose calls
\* in flight complete as they would have.
C19_FailureIsNoData ==
    /\ [](\A w \in Workers : Failed(wk[w].raw) =>
            /\ wk[w].exc = "none"
            /\ \/ wk[w].pc = "passport_loop" /\ IsNone(wk[w].data)
               \/ wk[w].pc = "finalize")
    /\ [][\A w \in Workers : Failed(wk'[w].raw) /\ wk'[w].raw # wk[w].raw =>
            /\ \A v \in Workers \ {w} : wk'[v] = wk[v]
            /\ UNCHANGED <<q, unfinished, rows, lock, mpc, result, cb_log, done_log>>
            /\ wk[w].pc = "wait_passport" =>
                  wk'[w] = [wk[w] EXCEPT !.pc = "passport_loop", !.data = None,
                                         !.raw = wk'[w].raw]
            /\ wk[w].pc = "wait_catalog" =>
                  wk'[w] = [wk[w] EXCEPT !.pc = "finalize", !.raw = wk'[w].raw]]_vars

\* a passport GET of one worker timed out while a request of the other worker
\* is in flight
C19_Witness ==
    \E w, v \in Workers :
        /\ w # v
        /\ wk[w].raw = RawFail("timeout") /\ wk[w].pc = "passport_loop"
        /\ wk[v].pc \in {"wait_passport", "wait_catalog"}

-----------------------------------------------------------------------------
(* Properties of the sinks *)

\* C20 as claimed: in either export, a sink that fails keeps the export from
\* completing with a success result.
C20_Original == sink_faults # {} => mpc # "returned"

\* C20: a failure of export_data's file sink, or of export_html_report's page
\* sink, propagates to the caller, and only such a failure does; a failure of
\* export_html_report's companion CSV or XLSX sink is caught: the export goes
\* on with that path None and returns the path of the page.
C20_SinkFaultFatal ==
    /\ mpc = "raised" <=> sink_faults \cap {"file", "html"} # {}
    /\ mpc = "raised" => result = [t |-> "exc", v |-> "sink"]
    /\ operation = "export_data" =>
          /\ sink_faults \subseteq {"file"}
          /\ mpc = "returned" => sink_faults = {} /\ result = PInt(Len(rows))
    /\ operation = "export_html_report" =>
          /\ sink_faults \subseteq {"csv", "xlsx", "html"}
          /\ mpc \in {"save_xlsx", "render", "returned", "raised"} =>
                ("csv" \in sink_faults <=> IsNone(csv_path))
          /\ mpc \in {"render", "returned", "raised"} =>
                ("xlsx" \in sink_faults <=> IsNone(xlsx_path))
          /\ mpc = "returned" => result = PStr("output_html_path")

\* export_html_report over one seller: the CSV sink failed and the export
\* went on, then the page sink failed and the export raised
C20_Witness ==
    /\ operation = "export_html_report" /\ NIds = 1
    /\ mpc = "raised" /\ sink_faults = {"csv", "html"}
    /\ IsNone(csv_path) /\ ~IsNone(xlsx_path)

-----------------------------------------------------------------------------
(* Properties of the pool's life cycle *)

\* C21: the sink gets the rows only once the queue has reported every id
\* done and every worker has stopped; a row is in the collection before its
\* id is marked done; the collection only grows, by appends made while
\* export_data waits for the queue, and is never touched after the hand-off.
C21_HandOffAfterPool ==
    /\ [](/\ PoolDone =>
               /\ unfinished = 0 /\ q = <<>> /\ lock = Nobody
               /\ Len(done_log) = NIds
               /\ \A w \in Workers : wk[w].pc = "stopped"
          /\ \A w \in Workers : wk[w].pc = "task_done" /\ ~wk[w].logged =>
                /\ wk[w].appended_at \in 1..Len(rows)
                /\ rows[wk[w].appended_at] = wk[w].row)
    /\ [][/\ rows' # rows =>
               /\ mpc = "wait_join" /\ mpc' = mpc
               /\ \E w \in Workers : rows' = Append(rows, wk[w].row)
          /\ Len(done_log') > Len(done_log) =>
               /\ rows' = rows
               /\ Last(done_log').row =>
                     \E i \in 1..Len(rows) : rows[i][1] = PInt(Last(done_log').sid)
          /\ PoolDone => rows' = rows /\ PoolDone']_vars

\* the hand-off of two rows is about to start
C21_Witness ==
    /\ mpc = "save" /\ Len(rows) = 2
    /\ \A i \in 1..Len(done_log) : done_log[i].row

\* the state of worker w in the worker state machine; Closing is the end of an
\* iteration (the log line of a fault, the progress callback, the completion
\* mark), the way back to Idle of a success and of a fault alike
Phase(p) ==
    CASE p \in {"new", "get", "wait_get"} -> "Idle"
      [] p \in {"passport_loop", "wait_passport", "passport_return"} -> "Fetching"
      [] p \in {"catalog_loop", "wait_catalog", "finalize"} -> "Aggregating"
      [] p = "build" -> "Building"
      [] p \in {"acquire", "append", "release"} -> "Appending"
      [] p \in {"except", "finally", "task_done"} -> "Closing"
      [] p = "stopped" -> "Stopped"

\* the moves of the machine
Moves ==
    {<<"Idle", "Fetching">>, <<"Fetching", "Aggregating">>, <<"Aggregating", "Building">>,
     <<"Building", "Appending">>, <<"Appending", "Closing">>,
     <<"Fetching", "Closing">>, <<"Aggregating", "Closing">>,
     <<"Closing", "Idle">>, <<"Idle", "Stopped">>}

\* C22: a worker goes Idle, Fetching, Aggregating, Building, Appending and
\* back to Idle for each id it dequeues; a fault while fetching or aggregating
\* takes it to the end of the iteration and back to Idle with no row built or
\* appended; it stops from Idle only, on the cancellation, and a stopped
\* worker does nothing more: no dequeue, no append, no callback.
C22_WorkerMachine ==
    /\ [](\A w \in Workers :
            /\ wk[w].exc = "CancelledError" => wk[w].pc = "stopped"
            /\ wk[w].pc = "stopped" => wk[w].cancel_req)
    /\ [][\A w \in Workers :
            /\ Phase(wk'[w].pc) # Phase(wk[w].pc) =>
                  <<Phase(wk[w].pc), Phase(wk'[w].pc)>> \in Moves
            /\ Phase(wk[w].pc) = "Idle" /\ Phase(wk'[w].pc) = "Fetching" =>
                  q # <<>> /\ q' = Tail(q) /\ wk'[w].sid = Head(q)
            /\ Phase(wk[w].pc) \in {"Fetching", "Aggregating"}
               /\ Phase(wk'[w].pc) = "Closing" =>
                  wk'[w].pc = "except" /\ wk'[w].exc = "Exception" /\ rows' = rows
            /\ wk[w].pc = "except" => wk'[w].pc \in {"except", "finally"} /\ rows' = rows
            /\ Leaves(w, "wait_get") /\ wk[w].cancel_req => wk'[w].pc = "stopped"
            /\ wk[w].pc = "stopped" =>
                  /\ wk'[w] = wk[w]
                  /\ rows' = rows /\ q' = q /\ cb_log' = cb_log /\ done_log' = done_log]_vars

\* a worker has stopped after one iteration that faulted and one that
\* appended a row
C22_Witness ==
    \E w \in Workers :
        /\ wk[w].pc = "stopped"
        /\ \E i, j \in 1..Len(done_log) :
              /\ done_log[i].w = w /\ done_log[i].fault
              /\ done_log[j].w = w /\ done_log[j].row

\* the cancellation has been sent to worker w, which has not yet observed it
Cancelled(w) == wk[w].cancel_req /\ wk[w].pc # "stopped"

\* C23 as claimed: the cancellation is sent only once every id is marked
\* done, and finds every worker waiting on the empty queue.
C23_Original ==
    /\ mpc = "cancel" =>
          /\ unfinished = 0 /\ q = <<>>
          /\ \A w \in Workers : wk[w].pc = "wait_get"
    /\ \A w \in Workers : Cancelled(w) => wk[w].pc = "wait_get"

\* C23: the cancellation is sent only once every id is marked done; it finds
\* a worker with no request in flight and no id in hand: waiting on the empty
\* queue, or, when the id list is empty, not yet started.
C23_ShutdownInterruptsNothing ==
    /\ mpc = "cancel" =>
          /\ unfinished = 0 /\ q = <<>> /\ Len(done_log) = NIds
          /\ \A w \in Workers : ~Busy(w)
          /\ \A w \in Workers : IF NIds = 0 THEN wk[w].pc = "new" ELSE wk[w].pc = "wait_get"
    /\ \A w \in Workers : Cancelled(w) =>
          /\ ~Busy(w) /\ lock # w
          /\ IF NIds = 0 THEN wk[w].pc = "new" ELSE wk[w].pc = "wait_get"

\* two workers, both of which processed an id, have been cancelled while
\* waiting on the empty queue
C23_Witness ==
    /\ NIds = 2 /\ concurrency = 2
    /\ \A w \in Workers : Cancelled(w) /\ wk[w].pc = "wait_get"
    /\ \E i, j \in 1..Len(done_log) : done_log[i].w # done_log[j].w

-----------------------------------------------------------------------------
(* Properties of the pool's size *)

Min(a, b) == IF a < b THEN a ELSE b

\* the workers that hold a dequeued id not yet marked done
BusyWorkers == {w \in Workers : Busy(w)}

\* C24: there are exactly `concurrency` worker tasks, each holding at most one
\* id at a time (every id is in the queue, in one worker's hands, or marked
\* done), so at most min(concurrency, number of ids) ids are in process at
\* once.
C24_AtMostConcurrency ==
    /\ DOMAIN wk = 1..concurrency
    /\ Cardinality(BusyWorkers) <= Min(concurrency, NIds)
    /\ Len(q) + Cardinality(BusyWorkers) + Len(done_log) = NIds
    /\ \A w, v \in BusyWorkers : w # v => wk[w].pos # wk[v].pos

\* ten workers by default and one id: one worker has it, nine wait on the
\* empty queue
C24_Witness ==
    /\ concurrency = DefaultConcurrency /\ NIds = 1
    /\ Cardinality(BusyWorkers) = 1
    /\ Cardinality({w \in Workers : wk[w].pc = "wait_get"}) = DefaultConcurrency - 1

-----------------------------------------------------------------------------
(* Properties of the requests *)

\* the GETs of kind k ("passport", "catalog") among gs
GetsOf(gs, k) == {i \in 1..Len(gs) : gs[i][1] = k}

\* C25: for one dequeued id no address is requested twice, whatever the
\* responses: the passport GETs go to distinct candidate volumes, at most 3;
\* the catalog GETs go to distinct pages of 1..3, at most 3; and every
\* passport GET precedes every catalog GET.
C25_NoRetry ==
    \A w \in Workers :
        LET gs == wk[w].gets
        IN /\ Distinct(gs)
           /\ Cardinality(GetsOf(gs, "passport")) <= 3
           /\ Cardinality(GetsOf(gs, "catalog")) <= Pages
           /\ \A i \in GetsOf(gs, "passport") :
                 \E j \in 1..3 : gs[i][2] = possible_vols(wk[w].sid)[j]
           /\ \A i \in GetsOf(gs, "catalog") : gs[i][2] \in 1..Pages
           /\ \A i \in GetsOf(gs, "passport"), j \in GetsOf(gs, "catalog") : i < j
           /\ wk[w].pc = "wait_passport" => Last(gs) = <<"passport", Last(wk[w].tried)>>
           /\ wk[w].pc = "wait_catalog" => Last(gs) = <<"catalog", wk[w].page>>

\* every exchange failed or came back empty-handed as long as it could: the
\* three candidates were requested once each, then page 1 and page 2
C25_Witness ==
    \E w \in Workers :
        /\ wk[w].pc = "build" /\ wk[w].sid = 893739
        /\ IsNone(wk[w].passport_raw)
        /\ wk[w].gets = <<<<"passport", 0>>, <<"passport", 893>>, <<"passport", 89>>,
                          <<"catalog", 1>>, <<"catalog", 2>>>>

-----------------------------------------------------------------------------
(* Properties of the rankings *)

\* the category and the brand label of product g
CategoryOf(g) ==
    IF Truthy(DGet(g, "subjectName")) THEN DGet(g, "subjectName").v
    ELSE IF Truthy(DGet(g, "entity")) THEN DGet(g, "entity").v
    ELSE ""
BrandOf(g) == IF Truthy(DGet(g, "brand")) THEN DGet(g, "brand").v ELSE ""

\* how often, and where first, label x occurs in the label sequence ls
Count(ls, x) == Cardinality({i \in 1..Len(ls) : ls[i] = x})
First(ls, x) == CHOOSE i \in 1..Len(ls) : ls[i] = x /\ \A j \in 1..(i - 1) : ls[j] # x

\* x ranks before y: more occurrences, or as many and an earlier first one
RanksBefore(ls, x, y) ==
    \/ Count(ls, x) > Count(ls, y)
    \/ Count(ls, x) = Count(ls, y) /\ First(ls, x) < First(ls, y)

\* top (three slots) is the ranking of the labels ls: the min(3, number of
\* labels) best ranked labels in rank order, then nulls
IsTop3(top, ls) ==
    LET labels == {ls[i] : i \in 1..Len(ls)}
        n == Min(3, Cardinality(labels))
    IN /\ Len(top) = 3
       /\ \A k \in 1..3 : IF k <= n THEN top[k].t = "str" /\ top[k].v \in labels
                          ELSE IsNone(top[k])
       /\ \A j, k \in 1..n : j < k => RanksBefore(ls, top[j].v, top[k].v)
       /\ \A x \in labels \ {top[k].v : k \in 1..n} :
             \A k \in 1..n : RanksBefore(ls, top[k].v, x)

\* C26: the top categories and the top brands of a sample are the labels with
\* the three highest occurrence counts among the scanned products, highest
\* first, equal counts in order of first encounter, padded with nulls.
C26_TopLabels ==
    \A w \in Workers : wk[w].pc = "build" =>
        LET gs == wk[w].seen
        IN /\ IsTop3(DGet(wk[w].sample_raw, "topSubjects").v,
                     [i \in 1..Len(gs) |-> CategoryOf(gs[i])])
           /\ IsTop3(DGet(wk[w].sample_raw, "topBrands").v,
                     [i \in 1..Len(gs) |-> BrandOf(gs[i])])

\* shoes came first but once, bags and hats twice each, bags before hats
C26_Witness ==
    \E w \in Workers :
        /\ wk[w].pc = "build"
        /\ wk[w].seen = <<ProdA, ProdB, ProdB, ProdC, ProdC>>
        /\ DGet(wk[w].sample_raw, "topSubjects").v = <<PStr("bags"), PStr("hats"), PStr("shoes")>>

\* record i of recs ranks before record j: a higher discount percent, or the
\* same and encountered earlier
DiscBefore(recs, i, j) ==
    \/ Hundredths(recs[i][2]) > Hundredths(recs[j][2])
    \/ Hundredths(recs[i][2]) = Hundredths(recs[j][2]) /\ i < j

\* the index of the record of rank k
Ranked(recs, k) ==
    CHOOSE i \in 1..Len(recs) :
        Cardinality({j \in 1..Len(recs) : DiscBefore(recs, j, i)}) = k - 1

\* the per-product records of the products gs, in encounter order
RecordsOf(gs) == ScanProducts(EmptyAcc, gs).discount_items

\* C27: the three discount records of a sample are the records of the three
\* products with the highest discount percent, highest first, equal discounts
\* in encounter order across pages; the slots after the real records are
\* records of 8 nulls.
C27_TopDiscounts ==
    \A w \in Workers : wk[w].pc = "build" =>
        LET recs == RecordsOf(wk[w].seen)
            items == DGet(wk[w].sample_raw, "topDiscountItems").v
            n == Min(3, Len(recs))
        IN /\ Len(items) = 3
           /\ \A k \in 1..3 :
                 IF k <= n THEN items[k] = recs[Ranked(recs, k)]
                 ELSE /\ Len(items[k]) = 8
                      /\ \A f \in 1..8 : IsNone(items[k][f])

\* 20 % on page 2 first, then the two 0 % records in encounter order (page 1
\* before page 2), the -25 % record of page 1 left out
C27_Witness ==
    \E w \in Workers :
        /\ wk[w].pc = "build"
        /\ wk[w].seen = <<ProdC, ProdD, ProdA, ProdB>>
        /\ LET items == DGet(wk[w].sample_raw, "topDiscountItems").v
           IN <<items[1][1], items[2][1], items[3][1]>> = <<PInt(101), PInt(103), PInt(102)>>

-----------------------------------------------------------------------------
(* Properties of the price components *)

\* the price object chosen for product g: the nested one when g has one, else
\* the one of the first size variant, else none
ChosenSource(g) ==
    LET sizes_list == DGet(g, "sizes")
    IN IF ~IsNone(DGet(g, "price")) THEN DGet(g, "price")
       ELSE IF IsList(sizes_list) /\ Truthy(sizes_list) /\ IsDict(sizes_list.v[1])
                 /\ IsDict(DGet(sizes_list.v[1], "price"))
            THEN DGet(sizes_list.v[1], "price")
            ELSE PDict(<<>>)

\* the price components and their positions in a per-product record
Components == {<<"basic", 4>>, <<"product", 5>>, <<"total", 6>>, <<"logistics", 7>>}

\* the values of field f of the records recs that are not null, in order
RECURSIVE Present(_, _)
Present(recs, f) ==
    IF recs = <<>> THEN <<>>
    ELSE (IF IsNone(recs[1][f]) THEN <<>> ELSE <<recs[1][f]>>) \o Present(Tail(recs), f)

\* the running list of a price component
RunningList(acc, name) ==
    CASE name = "basic" -> acc.basic_prices
      [] name = "product" -> acc.product_prices
      [] name = "total" -> acc.total_prices
      [] name = "logistics" -> acc.logistics_prices

\* C28: each price component of a scanned product is the raw integer of the
\* chosen price object (the nested one, the one of the first size variant only
\* when there is no nested one) divided by 100, and null exactly when the
\* chosen object lacks it; the running lists hold the non-null components.
C28_ComponentsFromSource ==
    \A w \in Workers : InCatalog(w) =>
        \A c \in Components :
            /\ RunningList(wk[w].acc, c[1]) = Present(wk[w].acc.discount_items, c[2])
            /\ \A i \in 1..Len(wk[w].seen) :
                  LET raw == DGet(ChosenSource(wk[w].seen[i]), c[1])
                      got == wk[w].acc.discount_items[i][c[2]]
                  IN IF IsNone(raw) THEN IsNone(got)
                     ELSE got = PNum(Hundredths(raw) \div 100)

-----------------------------------------------------------------------------
(* Properties of the pool when the progress callback raises *)

\* the task of worker w was ended by an exception of the progress callback
EndedByCallback(w) == wk[w].pc = "stopped" /\ wk[w].exc = "Exception"

\* C29: when the progress callback raises while a worker reports an id, that
\* id is still marked complete in the queue, and the pool still finishes:
\* export_data does not wait for the queue forever.
C29_CallbackFaultTolerated ==
    /\ [](\A w \in Workers : EndedByCallback(w) =>
            \E i \in 1..Len(done_log) : done_log[i].pos = wk[w].pos)
    /\ <>PoolDone

-----------------------------------------------------------------------------
(* Properties of the queue's accounting *)

\* the ids taken from the queue, and those the queue counts as complete
Dequeued == NIds - Len(q)
MarkedComplete == NIds - unfinished

\* C30: the ids marked complete never outnumber the ids dequeued; each
\* dequeued id is marked complete exactly once, after a success and after a
\* processing fault alike; the rows never outnumber the ids marked complete
\* plus those in process; when the pool has finished, rows = ids - faulted ids.
C30_QueueAccounting ==
    /\ MarkedComplete <= Dequeued
    /\ MarkedComplete = Len(done_log)
    /\ Dequeued = MarkedComplete + Cardinality(BusyWorkers)
    /\ \A p \in 1..NIds :
          LET marks == Cardinality({i \in 1..Len(done_log) : done_log[i].pos = p})
              held == Cardinality({w \in BusyWorkers : wk[w].pos = p})
          IN IF p > Dequeued
             THEN marks = 0 /\ held = 0
             ELSE marks + held = 1
    /\ \A i \in 1..Len(done_log) : done_log[i].fault \/ done_log[i].row
    /\ Len(rows) <= MarkedComplete + Cardinality(BusyWorkers)
    /\ PoolDone => /\ MarkedComplete = NIds
                   /\ Len(rows) = NIds - NFaults

\* two ids through two workers, the second id faulted and the first gave the
\* only row
C30_Witness ==
    /\ PoolDone /\ NIds = 2 /\ concurrency = 2
    /\ NFaults = 1 /\ Len(rows) = 1
    /\ \E i, j \in 1..2 : /\ done_log[i].pos = 1 /\ done_log[i].row
                          /\ done_log[j].pos = 2 /\ done_log[j].fault
                          /\ done_log[i].w # done_log[j].w

-----------------------------------------------------------------------------
(* Properties of a failed catalog page *)

\* the catalog pages worker w has requested for the id in its hands
PagesRequested(w) == Cardinality(GetsOf(wk[w].gets, "catalog"))

\* C31: a catalog page whose fetch fails is treated as an empty page: the scan
\* of that seller stops with no exception and no later page requested, and
\* the statistics of the earlier pages are kept and returned.
C31_FailedPageEndsScan ==
    /\ [](\A w \in Workers : (InCatalog(w) /\ Failed(wk[w].raw)) =>
            /\ wk[w].pc = "finalize" /\ wk[w].exc = "none" /\ ~wk[w].logged
            /\ PagesRequested(w) = wk[w].page
            /\ Last(wk[w].gets) = <<"catalog", wk[w].page>>
            /\ wk[w].acc = ScanProducts(EmptyAcc, wk[w].seen)
            /\ wk[w].acc.goods_seen = Len(wk[w].seen))
    /\ [][\A w \in Workers :
            /\ (wk[w].pc = "wait_catalog" /\ Failed(wk'[w].raw)) =>
                  /\ wk'[w].acc = wk[w].acc /\ wk'[w].seen = wk[w].seen
                  /\ wk'[w].gets = wk[w].gets
                  /\ [wk'[w] EXCEPT !.raw = RawJson(CatalogDoc(<<>>))]
                        = [wk[w] EXCEPT !.pc = "finalize",
                                        !.raw = RawJson(CatalogDoc(<<>>))]
            /\ (wk[w].pc = "finalize" /\ Failed(wk[w].raw)) =>
                  /\ wk'[w].pc = "build" /\ wk'[w].gets = wk[w].gets
                  /\ \E order \in Orders(wk[w].acc.promo_types_set) :
                        wk'[w].sample_raw =
                            Finalize(ScanProducts(EmptyAcc, wk[w].seen), order)
                  /\ FilledItems(DGet(wk'[w].sample_raw, "topDiscountItems").v)
                        = Min3(Len(wk[w].seen))]_vars

\* pages 1 and 2 gave two products each, page 3 was refused
C31_Witness ==
    \E w \in Workers :
        /\ wk[w].pc = "finalize" /\ wk[w].page = 3
        /\ wk[w].raw = RawStatus(404)
        /\ Len(wk[w].seen) = 4 /\ wk[w].acc.goods_seen = 4

-----------------------------------------------------------------------------
(* Properties of the order of the two fetches *)

\* C32: for one id the catalog requests start only after passport resolution
\* has finished; a fault of passport resolution leaves the id with no catalog
\* request and no row, while an absent passport (None) is no fault: the
\* catalog scan follows, and the row if the scan does not fault.
C32_PassportThenCatalog ==
    /\ [](\A w \in Workers :
            /\ InPassport(w) => PagesRequested(w) = 0 /\ wk[w].appended_at = 0
            /\ (InCatalog(w) \/ HasSample(w)) =>
                  /\ wk[w].vols = <<>> /\ wk[w].tried = <<>>
                  /\ ~wk[w].logged /\ wk[w].exc = "none"
            /\ (wk[w].pc = "except" /\ PagesRequested(w) = 0) => wk[w].appended_at = 0
            /\ wk[w].logged => wk[w].appended_at = 0)
    /\ [][\A w \in Workers :
            /\ (wk'[w].gets # wk[w].gets /\ wk'[w].gets # <<>>
                /\ Last(wk'[w].gets)[1] = "catalog") => ~InPassport(w)
            /\ Leaves(w, "passport_return") =>
                  IF Truthy(wk[w].data) /\ ~IsDict(wk[w].data)
                  THEN /\ wk'[w].pc = "except" /\ wk'[w].exc = "Exception"
                       /\ wk'[w].gets = wk[w].gets
                  ELSE /\ wk'[w].pc = "catalog_loop" /\ wk'[w].page = 1
                       /\ wk'[w].exc = "none"
                       /\ IsNone(wk'[w].passport_raw) = ~HasName(wk[w].data)
            /\ Leaves(w, "build") =>
                  /\ wk'[w].pc = "acquire"
                  /\ IsNone(wk[w].passport_raw) => IsNone(wk'[w].row[2])]_vars

\* no candidate gave a passport, the catalog was scanned all the same and the
\* row without a seller name is in the result collection
C32_Witness ==
    \E w \in Workers :
        /\ wk[w].appended_at > 0 /\ IsNone(wk[w].passport_raw)
        /\ wk[w].sid = 5500
        /\ rows[wk[w].appended_at] = wk[w].row
        /\ IsNone(wk[w].row[2]) /\ wk[w].row[10] = PInt(1)

-----------------------------------------------------------------------------
(* Properties of the number of passport candidates *)

\* how many candidate volumes the id sid has
NCandidates(sid) == IF sid < 1000 THEN 1 ELSE IF sid < 10000 THEN 2 ELSE 3

\* C33: the candidate volumes of an id, hence the most passport GETs made for
\* it, depend on the id alone: [0] below 1000, [0, id div 1000] from 1000 to
\* 9999, [0, id div 1000, id div 10000] from 10000 on, three distinct
\* volumes; the list has no duplicate and starts with 0.
C33_CandidateCount ==
    \A w \in Workers :
        /\ InPassport(w) =>
              LET c == Candidates(w)
                  sid == wk[w].sid
              IN /\ Len(c) = NCandidates(sid)
                 /\ c[1] = 0
                 /\ Distinct(c)
                 /\ c = (IF sid < 1000 THEN <<0>>
                         ELSE IF sid < 10000 THEN <<0, sid \div 1000>>
                         ELSE <<0, sid \div 1000, sid \div 10000>>)
        /\ Busy(w) => Cardinality(GetsOf(wk[w].gets, "passport")) <= NCandidates(wk[w].sid)

\* the three volumes of id 10000 were requested, none gave a seller name
C33_Witness ==
    \E w \in Workers :
        /\ wk[w].pc = "passport_return" /\ wk[w].sid = 10000
        /\ wk[w].tried = <<0, 10, 1>> /\ wk[w].vols = <<>>
        /\ ~HasName(wk[w].data)

-----------------------------------------------------------------------------
(* Properties relating the aggregates of one sample *)

\* C34: when a product was scanned, discountMax is the discount percent of
\* the first top-discount record, the percents of the top-discount records do
\* not increase from slot 1 to slot 3, and discountAvg <= discountMax; when
\* none was scanned, discountAvg and discountMax are null and the three
\* records are all-null.
C34_DiscountAggregates ==
    \A w \in Workers : wk[w].pc = "build" =>
        LET sample == wk[w].sample_raw
            items == DGet(sample, "topDiscountItems").v
            dmax == DGet(sample, "discountMax")
            davg == DGet(sample, "discountAvg")
            n == Min3(Len(wk[w].seen))
        IN IF Len(wk[w].seen) = 0
           THEN /\ IsNone(dmax) /\ IsNone(davg)
                /\ \A k \in 1..3 : \A f \in 1..8 : IsNone(items[k][f])
           ELSE /\ ~IsNone(dmax) /\ ~IsNone(davg)
                /\ \A k \in 1..n : ~IsNone(items[k][2])
                /\ dmax = items[1][2]
                /\ \A j, k \in 1..n :
                      j < k => Hundredths(items[j][2]) >= Hundredths(items[k][2])
                /\ Hundredths(davg) <= Hundredths(dmax)
                /\ \A i \in 1..Len(wk[w].seen) :
                      Hundredths(RecordsOf(wk[w].seen)[i][2]) <= Hundredths(dmax)

\* -25 % then 20 %: the maximum is the 20 % of the first record, the mean -2.5
C34_Witness ==
    \E w \in Workers :
        /\ wk[w].pc = "build" /\ wk[w].seen = <<ProdD, ProdA>>
        /\ DGet(wk[w].sample_raw, "discountMax") = PNum(2000)
        /\ DGet(wk[w].sample_raw, "discountAvg") = PNum(-250)
        /\ DGet(wk[w].sample_raw, "topDiscountItems").v[1][1] = PInt(101)

\* the minimum, mean and maximum of a price aggregate of the sample
Triple(sample, name) ==
    <<DGet(sample, name \o "Min"), DGet(sample, name \o "Avg"), DGet(sample, name \o "Max")>>

\* null together, or none null and min <= avg <= max
Consistent(t) ==
    \/ IsNone(t[1]) /\ IsNone(t[2]) /\ IsNone(t[3])
    \/ /\ ~IsNone(t[1]) /\ ~IsNone(t[2]) /\ ~IsNone(t[3])
       /\ Hundredths(t[1]) <= Hundredths(t[2])
       /\ Hundredths(t[2]) <= Hundredths(t[3])

\* the overall price of a per-product record: the sale price, else the basic
OverallPrice(rec) == IF ~IsNone(rec[5]) THEN rec[5] ELSE rec[4]

\* C35: for the overall price and for the basic, product and total components
\* the minimum, mean and maximum are null together or non-null together with
\* min <= avg <= max; the overall price list takes a product's sale price when
\* present and its basic price otherwise, so priceMin <= productMin whenever
\* productMin is not null.
C35_PriceAggregates ==
    \A w \in Workers :
        /\ wk[w].pc = "build" =>
              LET sample == wk[w].sample_raw
              IN /\ \A name \in {"price", "basic", "product", "total"} :
                       Consistent(Triple(sample, name))
                 /\ ~IsNone(DGet(sample, "productMin")) =>
                       /\ ~IsNone(DGet(sample, "priceMin"))
                       /\ Hundredths(DGet(sample, "priceMin"))
                             <= Hundredths(DGet(sample, "productMin"))
        /\ InCatalog(w) =>
              LET recs == wk[w].acc.discount_items
                  overall == [i \in 1..Len(recs) |-> <<OverallPrice(recs[i])>>]
              IN wk[w].acc.prices = Present(overall, 1)

\* a product with a basic price of 2 only, then one with a sale price of 30:
\* the overall minimum 2 is below the sale minimum 30
C35_Witness ==
    \E w \in Workers :
        /\ wk[w].pc = "build"
        /\ wk[w].seen = <<PriceProbe(PInt(200), None), ProdC>>
        /\ Triple(wk[w].sample_raw, "price") = <<PNum(200), PNum(1600), PNum(3000)>>
        /\ Triple(wk[w].sample_raw, "product") = <<PNum(3000), PNum(3000), PNum(3000)>>
        /\ Consistent(Triple(wk[w].sample_raw, "total"))

-----------------------------------------------------------------------------
(* Properties relating the two exports *)

\* the pool is at work: export_data and export_html_report have not yet
\* reached what they write
InPool == mpc \in {"join", "wait_join", "cancel", "wait_gather"}

-----------------------------------------------------------------------------
(* Properties of the export of an empty id list *)

\* C37: with an empty id list the export terminates without dequeuing
\* anything: no worker ever holds an id or makes a request, every worker is
\* cancelled while idle, the progress callback is never invoked, and the
\* result collection is empty (export_data returns 0).
C37_EmptyList ==
    /\ [](NIds = 0 =>
            /\ q = <<>> /\ unfinished = 0
            /\ rows = <<>> /\ cb_log = <<>> /\ done_log = <<>>
            /\ mpc # "wait_join"
            /\ \A w \in Workers :
                  /\ ~Busy(w) /\ wk[w].gets = <<>> /\ wk[w].pos = 0
                  /\ wk[w].pc = "stopped" =>
                        wk[w].cancel_req /\ wk[w].exc = "CancelledError"
            /\ PoolDone => \A w \in Workers : wk[w].pc = "stopped"
            /\ mpc = "returned" => result = PInt(0))
    /\ (NIds = 0) ~> Completed

\* export_data of no id with two workers has returned 0
C37_Witness ==
    /\ NIds = 0 /\ concurrency = 2
    /\ mpc = "returned" /\ result = PInt(0)
    /\ \A w \in Workers : wk[w].pc = "stopped" /\ wk[w].cancel_req

-----------------------------------------------------------------------------
(* Properties of the order of the rows *)

\* the queue positions, in completion order, for which done_log records a row
RECURSIVE RowPositions(_)
RowPositions(log) ==
    IF log = <<>> THEN <<>>
    ELSE (IF log[1].row THEN <<log[1].pos>> ELSE <<>>) \o RowPositions(Tail(log))

\* the positions of the rows: those marked done, then the one a worker has
\* appended and not yet marked
AppendedPositions ==
    RowPositions(done_log)
    \o (IF \E w \in BusyWorkers : wk[w].appended_at > 0
        THEN <<wk[CHOOSE w \in BusyWorkers : wk[w].appended_at > 0].pos>>
        ELSE <<>>)

\* C38: the rows are in completion order; with one worker that is the input
\* order, the rows being those of the ids that did not fault; with more
\* workers a later id may complete, and have its row, before an earlier one.
C38_RowOrder ==
    LET ps == AppendedPositions
    IN /\ Len(rows) = Len(ps)
       /\ \A i \in 1..Len(rows) : rows[i][1] = PInt(seller_ids[ps[i]])
       /\ Distinct(ps)
       /\ concurrency = 1 =>
             /\ \A i \in 1..Len(done_log) : done_log[i].pos = i
             /\ \A i, j \in 1..Len(ps) : i < j => ps[i] < ps[j]
             /\ \A p \in 1..Len(done_log) :
                   done_log[p].fault \/ \E i \in 1..Len(ps) : ps[i] = p

\* two workers: the row of the second id precedes the row of the first
C38_Witness ==
    /\ concurrency = 2 /\ seller_ids = <<7, 5500>> /\ PoolDone
    /\ Len(rows) = 2
    /\ rows[1][1] = PInt(5500) /\ rows[2][1] = PInt(7)

\* two workers and the rows in input order (the other completion order)
RowsInInputOrder ==
    /\ concurrency = 2 /\ seller_ids = <<7, 5500>> /\ PoolDone
    /\ Len(rows) = 2 /\ done_log[1].w # done_log[2].w
    /\ rows[1][1] = PInt(7) /\ rows[2][1] = PInt(5500)

-----------------------------------------------------------------------------
(* Properties of the empty label *)

\* the distinct labels of the label sequence ls
LabelSet(ls) == {ls[i] : i \in 1..Len(ls)}

\* slot k of top is null exactly when fewer than k labels were observed, and
\* the empty label has its slot when at most three labels were observed
SlotsCountEmpty(top, labels) ==
    /\ \A k \in 1..3 : IsNone(top[k]) <=> k > Cardinality(labels)
    /\ ("" \in labels /\ Cardinality(labels) <= 3) => \E k \in 1..3 : top[k] = PStr("")

\* C39: a product with no category (or brand) label is counted under the
\* empty-string label: the empty string counts toward subjectsCount and can
\* occupy a top-3 slot, so a slot is null only when fewer distinct labels, the
\* empty string included, were observed than the slot's rank.
C39_EmptyLabelCounts ==
    \A w \in Workers : wk[w].pc = "build" =>
        LET gs == wk[w].seen
            cats == LabelSet([i \in 1..Len(gs) |-> CategoryOf(gs[i])])
            brands == LabelSet([i \in 1..Len(gs) |-> BrandOf(gs[i])])
        IN /\ DGet(wk[w].sample_raw, "subjectsCount") = PInt(Cardinality(cats))
           /\ SlotsCountEmpty(DGet(wk[w].sample_raw, "topSubjects").v, cats)
           /\ SlotsCountEmpty(DGet(wk[w].sample_raw, "topBrands").v, brands)

\* a product without a brand and a product without a category: two
\* categories counted, the empty label second among the categories and first
\* among the brands
C39_Witness ==
    \E w \in Workers :
        /\ wk[w].pc = "build" /\ wk[w].seen = <<ProdB, ProdD>>
        /\ DGet(wk[w].sample_raw, "subjectsCount") = PInt(2)
        /\ DGet(wk[w].sample_raw, "topSubjects").v = <<PStr("bags"), PStr(""), None>>
        /\ DGet(wk[w].sample_raw, "topBrands").v = <<PStr(""), PStr("omega"), None>>

====
